---------------------------- MODULE Spec2Model ----------------------------
(***************************************************************************)
(* curlthis: a raw HTTP request is parsed into a request record            *)
(* (curlthis/parser.py, alakazam_parse_request) and the record is rendered *)
(* as a one-line curl command (curlthis/formatter.py, kadabra_format_curl).*)
(*                                                                         *)
(* Text is a sequence of one-character strings, so that the code's         *)
(* strip/split/startswith/quote are computed character by character.       *)
(* An optional value (Python's None or an absent dict key) is the empty    *)
(* tuple None; a present value v is Some(v) = <<v>>.                       *)
(***************************************************************************)
EXTENDS Integers, Sequences, FiniteSets, TLC

VARIABLES raw_request, request_data, curl_command, error, pc

\* the command-line run (curlthis/main.py): the command line and what the
\* environment holds, what was printed on the two consoles, what was copied to
\* the clipboard, the exit code, and the stages entered so far
VARIABLES argv, env, stdout, stderr, copied, exit_code, stages

cli_vars == <<argv, env, stdout, stderr, copied, exit_code, stages>>

\* calls: the invocations of alakazam_parse_request and kadabra_format_curl in
\* progress when several callers use the library at once, one frame of
\* local variables per caller
VARIABLES calls

vars == <<raw_request, request_data, curl_command, error, pc,
          argv, env, stdout, stderr, copied, exit_code, stages, calls>>

None == <<>>
Some(v) == <<v>>
IsSome(o) == o # <<>>
Val(o) == o[1]

(***************************************************************************)
(* Python str primitives                                                   *)
(***************************************************************************)

\* str.isspace() for the ASCII range
Whitespace == {" ", "\t", "\n", "\r", "\f"}

AsciiLower == <<"a", "b", "c", "d", "e", "f", "g", "h", "i", "j", "k", "l", "m", "n", "o", "p", "q", "r", "s", "t", "u", "v", "w", "x", "y", "z">>
AsciiUpper == <<"A", "B", "C", "D", "E", "F", "G", "H", "I", "J", "K", "L", "M", "N", "O", "P", "Q", "R", "S", "T", "U", "V", "W", "X", "Y", "Z">>
Digits == {"0", "1", "2", "3", "4", "5", "6", "7", "8", "9"}

UpperChar(c) ==
    IF \E i \in 1..26 : AsciiLower[i] = c
    THEN AsciiUpper[CHOOSE i \in 1..26 : AsciiLower[i] = c]
    ELSE c

LowerChar(c) ==
    IF \E i \in 1..26 : AsciiUpper[i] = c
    THEN AsciiLower[CHOOSE i \in 1..26 : AsciiUpper[i] = c]
    ELSE c

\* str.upper(), str.lower()
Upper(s) == [i \in 1..Len(s) |-> UpperChar(s[i])]
Lower(s) == [i \in 1..Len(s) |-> LowerChar(s[i])]

\* str.strip(): leading and trailing whitespace removed
Strip(s) ==
    LET keep == {i \in 1..Len(s) : s[i] \notin Whitespace}
    IN  IF keep = {} THEN <<>>
        ELSE LET first == CHOOSE i \in keep : \A j \in keep : i <= j
                 last  == CHOOSE i \in keep : \A j \in (i + 1)..Len(s) : s[j] \in Whitespace
             IN  SubSeq(s, first, last)

\* str.startswith(prefix)
StartsWith(s, prefix) ==
    /\ Len(prefix) <= Len(s)
    /\ SubSeq(s, 1, Len(prefix)) = prefix

\* str.split(sep) for a one-character sep: ''.split(sep) is ['']
RECURSIVE Split(_, _)
Split(s, sep) ==
    LET at == {i \in 1..Len(s) : s[i] = sep}
    IN  IF at = {} THEN <<s>>
        ELSE LET p == CHOOSE i \in at : \A j \in at : i <= j
             IN  <<SubSeq(s, 1, p - 1)>> \o Split(SubSeq(s, p + 1, Len(s)), sep)

\* str.split(sep, 1) on a string that contains sep: [before, after]
SplitOnce(s, sep) ==
    LET at == {i \in 1..Len(s) : s[i] = sep}
        p  == CHOOSE i \in at : \A j \in at : i <= j
    IN  <<SubSeq(s, 1, p - 1), SubSeq(s, p + 1, Len(s))>>

\* str.split() with no argument: the runs of non-whitespace
RECURSIVE SplitWhitespace(_)
SplitWhitespace(s) ==
    LET keep == {i \in 1..Len(s) : s[i] \notin Whitespace}
    IN  IF keep = {} THEN <<>>
        ELSE LET first == CHOOSE i \in keep : \A j \in keep : i <= j
                 stop  == {i \in first..Len(s) : s[i] \in Whitespace}
                 end   == IF stop = {} THEN Len(s) + 1
                          ELSE CHOOSE i \in stop : \A j \in stop : i <= j
             IN  <<SubSeq(s, first, end - 1)>>
                     \o SplitWhitespace(SubSeq(s, end, Len(s)))

\* sep.join(parts)
RECURSIVE Join(_, _)
Join(parts, sep) ==
    IF parts = <<>> THEN <<>>
    ELSE IF Len(parts) = 1 THEN parts[1]
    ELSE parts[1] \o sep \o Join(Tail(parts), sep)

\* a mapping that moves a key assigned again to the end
DictSet_MoveToEnd(d, key, value) ==
    Append(SelectSeq(d, LAMBDA e : e[1] # key), <<key, value>>)

\* a mapping whose keys are compared without regard to letter case
DictSet_IgnoreCase(d, key, value) ==
    IF \E i \in 1..Len(d) : Lower(d[i][1]) = Lower(key)
    THEN [i \in 1..Len(d) |-> IF Lower(d[i][1]) = Lower(key) THEN <<d[i][1], value>> ELSE d[i]]
    ELSE Append(d, <<key, value>>)

\* a list of pairs that takes every assignment as a new entry
DictSet_Append(d, key, value) == Append(d, <<key, value>>)

\* d[key] = value on an insertion-ordered dict, kept as a sequence of <<key, value>>
DictSet(d, key, value) ==
    IF \E i \in 1..Len(d) : d[i][1] = key
    THEN [i \in 1..Len(d) |-> IF d[i][1] = key THEN <<key, value>> ELSE d[i]]
    ELSE Append(d, <<key, value>>)

(***************************************************************************)
(* curlthis/parser.py                                                      *)
(***************************************************************************)

\* an allow-list that lacks PUT
VALID_METHODS_NoPut == {
    <<"G", "E", "T">>, <<"P", "O", "S", "T">>,
    <<"D", "E", "L", "E", "T", "E">>, <<"P", "A", "T", "C", "H">>,
    <<"O", "P", "T", "I", "O", "N", "S">>, <<"H", "E", "A", "D">>,
    <<"T", "R", "A", "C", "E">>, <<"C", "O", "N", "N", "E", "C", "T">>}

VALID_METHODS == {
    <<"G", "E", "T">>, <<"P", "O", "S", "T">>, <<"P", "U", "T">>,
    <<"D", "E", "L", "E", "T", "E">>, <<"P", "A", "T", "C", "H">>,
    <<"O", "P", "T", "I", "O", "N", "S">>, <<"H", "E", "A", "D">>,
    <<"T", "R", "A", "C", "E">>, <<"C", "O", "N", "N", "E", "C", "T">>}

\* the ValueError messages, by their first sentence
NoError == ""
EmptyInput == "No HTTP request found"
MalformedRequestLine == "Invalid request line format"
InvalidMethod == "Invalid HTTP method"
MissingHost == "Missing Host header"
MissingURL == "Missing URL in request data"

HttpScheme == <<"h", "t", "t", "p", ":", "/", "/">>
HttpsScheme == <<"h", "t", "t", "p", "s", ":", "/", "/">>
HostKey == <<"h", "o", "s", "t">>
CookieKey == <<"c", "o", "o", "k", "i", "e">>
ProxyKeys == {
    <<"p", "r", "o", "x", "y", "-", "c", "o", "n", "n", "e", "c", "t", "i", "o", "n">>,
    <<"x", "-", "f", "o", "r", "w", "a", "r", "d", "e", "d", "-", "f", "o", "r">>}

\* the locals of the header loop before its first iteration
ScanStart(lines) ==
    [headers |-> <<>>, host |-> None, cookies |-> None, proxy |-> None,
     body_start_index |-> Len(lines)]

\* the header loop's iteration keeping the first proxy value it meets
ScanLine_FirstProxy(st, line) ==
    IF ":" \in {line[k] : k \in 1..Len(line)}
    THEN LET kv    == SplitOnce(line, ":")
             key   == Strip(kv[1])
             value == Strip(kv[2])
             st1   == [st EXCEPT !.headers = DictSet(st.headers, key, value)]
         IN  IF Lower(key) = HostKey THEN [st1 EXCEPT !.host = Some(value)]
             ELSE IF Lower(key) = CookieKey THEN [st1 EXCEPT !.cookies = Some(value)]
             ELSE IF Lower(key) \in ProxyKeys
                  THEN (IF IsSome(st.proxy) THEN st1 ELSE [st1 EXCEPT !.proxy = Some(value)])
             ELSE st1
    ELSE st

\* the header loop's iteration leaving the Host line out of headers
ScanLine_HostNotStored(st, line) ==
    IF ":" \in {line[k] : k \in 1..Len(line)}
    THEN LET kv    == SplitOnce(line, ":")
             key   == Strip(kv[1])
             value == Strip(kv[2])
             st1   == [st EXCEPT !.headers = DictSet(st.headers, key, value)]
         IN  IF Lower(key) = HostKey THEN [st EXCEPT !.host = Some(value)]
             ELSE IF Lower(key) = CookieKey THEN [st1 EXCEPT !.cookies = Some(value)]
             ELSE IF Lower(key) \in ProxyKeys THEN [st1 EXCEPT !.proxy = Some(value)]
             ELSE st1
    ELSE st

\* the header loop's iteration keeping the first Cookie value it meets
ScanLine_FirstCookie(st, line) ==
    IF ":" \in {line[k] : k \in 1..Len(line)}
    THEN LET kv    == SplitOnce(line, ":")
             key   == Strip(kv[1])
             value == Strip(kv[2])
             st1   == [st EXCEPT !.headers = DictSet(st.headers, key, value)]
         IN  IF Lower(key) = HostKey THEN [st1 EXCEPT !.host = Some(value)]
             ELSE IF Lower(key) = CookieKey
                  THEN (IF IsSome(st.cookies) THEN st1 ELSE [st1 EXCEPT !.cookies = Some(value)])
             ELSE IF Lower(key) \in ProxyKeys THEN [st1 EXCEPT !.proxy = Some(value)]
             ELSE st1
    ELSE st

\* one iteration of the header loop on a non-blank line
ScanLine(st, line) ==
    IF ":" \in {line[k] : k \in 1..Len(line)}
    THEN LET kv    == SplitOnce(line, ":")
             key   == Strip(kv[1])
             value == Strip(kv[2])
             st1   == [st EXCEPT !.headers = DictSet(st.headers, key, value)]
         IN  IF Lower(key) = HostKey THEN [st1 EXCEPT !.host = Some(value)]
             ELSE IF Lower(key) = CookieKey THEN [st1 EXCEPT !.cookies = Some(value)]
             ELSE IF Lower(key) \in ProxyKeys THEN [st1 EXCEPT !.proxy = Some(value)]
             ELSE st1
    ELSE st

\* the header loop breaking at an empty line only, not at one of whitespace
RECURSIVE ScanHeaders_EmptyLineOnly(_, _, _)
ScanHeaders_EmptyLineOnly(lines, i, st) ==
    IF i >= Len(lines) THEN st
    ELSE IF lines[i + 1] = <<>> THEN [st EXCEPT !.body_start_index = i + 1]
    ELSE ScanHeaders_EmptyLineOnly(lines, i + 1, ScanLine(st, lines[i + 1]))

\* the header loop without its break at the first blank line
RECURSIVE ScanHeaders_NoBreak(_, _, _)
ScanHeaders_NoBreak(lines, i, st) ==
    IF i >= Len(lines) THEN st
    ELSE IF Strip(lines[i + 1]) = <<>>
         THEN ScanHeaders_NoBreak(lines, i + 1,
                  IF st.body_start_index = Len(lines)
                  THEN [st EXCEPT !.body_start_index = i + 1] ELSE st)
    ELSE ScanHeaders_NoBreak(lines, i + 1, ScanLine(st, lines[i + 1]))

\* for i, line in enumerate(lines[1:], 1): i is the 0-based index of line
RECURSIVE ScanHeaders(_, _, _)
ScanHeaders(lines, i, st) ==
    IF i >= Len(lines) THEN st
    ELSE IF Strip(lines[i + 1]) = <<>> THEN [st EXCEPT !.body_start_index = i + 1]
    ELSE ScanHeaders(lines, i + 1, ScanLine(st, lines[i + 1]))

\* is not None, for an optional string
Truthy_NotNone(o) == IsSome(o)

\* if x: for an optional string
Truthy(o) == IsSome(o) /\ Val(o) # <<>>

\* the body with its surrounding whitespace removed
ParseBody_Stripped(lines, body_start_index) ==
    IF body_start_index < Len(lines)
    THEN LET body_content ==
                 Join(SubSeq(lines, body_start_index + 1, Len(lines)), <<"\n">>)
         IN  IF Strip(body_content) # <<>> THEN Some(Strip(body_content)) ELSE None
    ELSE None

ParseBody(lines, body_start_index) ==
    IF body_start_index < Len(lines)
    THEN LET body_content ==
                 Join(SubSeq(lines, body_start_index + 1, Len(lines)), <<"\n">>)
         IN  IF Strip(body_content) # <<>> THEN Some(body_content) ELSE None
    ELSE None

\* the scheme prepended whatever the url starts with
BuildUrl_AlwaysHttps(host, path) ==
    LET url == IF Truthy(host) THEN Val(host) \o path ELSE path
    IN  IF Truthy(host) THEN HttpsScheme \o url ELSE url

BuildUrl(host, path) ==
    LET url == IF Truthy(host) THEN Val(host) \o path ELSE path
    IN  IF Truthy(host) /\ ~(StartsWith(url, HttpScheme) \/ StartsWith(url, HttpsScheme))
        THEN HttpsScheme \o url
        ELSE url

\* raise ValueError(kind ...): no record is returned
Failure(kind) == [error |-> kind, result |-> None]

\* if not lines, alone
IsEmptyRequest_NoLines(lines) == lines = <<>>

\* if not lines or not lines[0].strip()
IsEmptyRequest(lines) == lines = <<>> \/ Strip(lines[1]) = <<>>

\* a request line that must have its protocol version
TooFewParts_NeedsVersion(parts) == Len(parts) < 3

\* if len(parts) < 2
TooFewParts(parts) == Len(parts) < 2

\* method = parts[0].upper()
StoredMethod(token) == Upper(token)

\* the Host check left out: a request without a host value yields a record
ParseResult_HostNotChecked(lines, method, path, st) ==
        [error |-> NoError,
         result |-> Some(
            [method |-> Some(method),
             url |-> Some(BuildUrl(st.host, path)),
             headers |-> st.headers,
             body |-> ParseBody(lines, st.body_start_index),
             cookies |-> IF Truthy(st.cookies) THEN st.cookies ELSE None,
             proxy |-> IF Truthy(st.proxy) THEN st.proxy ELSE None,
             cookie_jar |-> None])]

\* after the header loop: the Host check, the body, the url and the returned dict
ParseResult(lines, method, path, st) ==
        IF ~Truthy(st.host) THEN Failure(MissingHost)
        ELSE
        [error |-> NoError,
         result |-> Some(
            [method |-> Some(method),
             url |-> Some(BuildUrl(st.host, path)),
             headers |-> st.headers,
             body |-> ParseBody(lines, st.body_start_index),
             cookies |-> IF Truthy(st.cookies) THEN st.cookies ELSE None,
             proxy |-> IF Truthy(st.proxy) THEN st.proxy ELSE None,
             cookie_jar |-> None])]

\* the header loop run to its end, then the rest of the function
ParseAfterRequestLine(lines, method, path) ==
    ParseResult(lines, method, path, ScanHeaders(lines, 1, ScanStart(lines)))

\* the Host header looked for before the method is validated
alakazam_parse_request_HostFirst(raw) ==
    LET lines == Split(Strip(raw), "\n")
    IN  IF IsEmptyRequest(lines) THEN Failure(EmptyInput)
        ELSE
        LET request_line == Strip(lines[1])
            parts == SplitWhitespace(request_line)
        IN  IF TooFewParts(parts) THEN Failure(MalformedRequestLine)
            ELSE
            LET method == StoredMethod(parts[1])
                path == parts[2]
                rest == ParseAfterRequestLine(lines, method, path)
            IN  IF rest.error # NoError THEN rest
                ELSE IF method \notin VALID_METHODS THEN Failure(InvalidMethod)
                ELSE rest

\* alakazam_parse_request: the raised error, or the returned dict
alakazam_parse_request(raw) ==
    LET lines == Split(Strip(raw), "\n")
    IN  IF IsEmptyRequest(lines) THEN Failure(EmptyInput)
        ELSE
        LET request_line == Strip(lines[1])
            parts == SplitWhitespace(request_line)
        IN  IF TooFewParts(parts) THEN Failure(MalformedRequestLine)
            ELSE
            LET method == StoredMethod(parts[1])
                path == parts[2]
            IN  IF method \notin VALID_METHODS THEN Failure(InvalidMethod)
                ELSE ParseAfterRequestLine(lines, method, path)

(***************************************************************************)
(* shlex.quote and json.loads, as curlthis/formatter.py calls them         *)
(***************************************************************************)

\* shlex's _find_unsafe: anything outside [A-Za-z0-9_@%+=:,./-]
SafeChars ==
    {AsciiLower[i] : i \in 1..26} \cup {AsciiUpper[i] : i \in 1..26} \cup Digits
        \cup {"_", "@", "%", "+", "=", ":", ",", ".", "/", "-"}

\* s.replace("'", "'\"'\"'")
RECURSIVE ReplaceQuotes(_)
ReplaceQuotes(s) ==
    IF s = <<>> THEN <<>>
    ELSE (IF Head(s) = "'" THEN <<"'", "\"", "'", "\"", "'">> ELSE <<Head(s)>>)
             \o ReplaceQuotes(Tail(s))

\* quoting that leaves an embedded single quote as it is
shlex_quote_NoReplace(s) ==
    IF s = <<>> THEN <<"'", "'">>
    ELSE IF \A i \in 1..Len(s) : s[i] \in SafeChars THEN s
    ELSE <<"'">> \o s \o <<"'">>

\* shlex.quote(s)
shlex_quote(s) ==
    IF s = <<>> THEN <<"'", "'">>
    ELSE IF \A i \in 1..Len(s) : s[i] \in SafeChars THEN s
    ELSE <<"'">> \o ReplaceQuotes(s) \o <<"'">>

\* json's WHITESPACE: [ \t\n\r]*
JsonWhitespace == {" ", "\t", "\n", "\r"}
\* characters a JSON string may not hold unescaped (strict mode): below 0x20
ControlChars == {"\t", "\n", "\r", "\f"}
HexDigits == Digits \cup {"a", "b", "c", "d", "e", "f", "A", "B", "C", "D", "E", "F"}
JsonEscapes == {"\"", "\\", "/", "b", "f", "n", "r", "t"}

\* the first index at or after i that holds no JSON whitespace (Len(s) + 1 if none)
SkipWs(s, i) ==
    LET stop == {j \in i..Len(s) : s[j] \notin JsonWhitespace}
    IN  IF stop = {} THEN Len(s) + 1 ELSE CHOOSE j \in stop : \A k \in stop : j <= k

\* the first index at or after i that holds no digit
SkipDigits(s, i) ==
    LET stop == {j \in i..Len(s) : s[j] \notin Digits}
    IN  IF stop = {} THEN Len(s) + 1 ELSE CHOOSE j \in stop : \A k \in stop : j <= k

At(s, i) == IF i >= 1 /\ i <= Len(s) THEN s[i] ELSE ""

HasAt(s, i, word) ==
    /\ i + Len(word) - 1 <= Len(s)
    /\ SubSeq(s, i, i + Len(word) - 1) = word

\* sys.get_int_max_str_digits(): int() of a longer decimal string raises ValueError
MaxStrDigits == 4300

\* The scanners return the index after what they matched, 0 for a JSONDecodeError,
\* and -1 for the ValueError of an integer literal of more than MaxStrDigits digits.

\* py_scanstring from the index after the opening quote
RECURSIVE ScanString(_, _)
ScanString(s, i) ==
    IF i > Len(s) THEN 0
    ELSE IF s[i] = "\"" THEN i + 1
    ELSE IF s[i] \in ControlChars THEN 0
    ELSE IF s[i] = "\\"
         THEN IF At(s, i + 1) \in JsonEscapes THEN ScanString(s, i + 2)
              ELSE IF At(s, i + 1) = "u"
                      /\ \A k \in 2..5 : At(s, i + k) \in HexDigits
                   THEN ScanString(s, i + 6)
              ELSE 0
    ELSE ScanString(s, i + 1)

\* NUMBER_RE: (-?(?:0|[1-9]\d*))(\.\d+)?([eE][-+]?\d+)?
ScanNumber(s, i) ==
    LET d == IF At(s, i) = "-" THEN i + 1 ELSE i
        int_end == IF At(s, d) = "0" THEN d + 1
                   ELSE IF At(s, d) \in Digits THEN SkipDigits(s, d)
                   ELSE 0
        frac_end == IF int_end # 0 /\ At(s, int_end) = "." /\ At(s, int_end + 1) \in Digits
                    THEN SkipDigits(s, int_end + 1)
                    ELSE int_end
        sign_end == IF At(s, frac_end + 1) \in {"+", "-"} THEN frac_end + 2 ELSE frac_end + 1
    IN  IF int_end = 0 THEN 0
        ELSE IF At(s, frac_end) \in {"e", "E"} /\ At(s, sign_end) \in Digits
             THEN SkipDigits(s, sign_end)
        ELSE IF frac_end = int_end /\ int_end - d > MaxStrDigits THEN -1
        ELSE frac_end

RECURSIVE ScanValue(_, _), ScanElements(_, _), ScanMembers(_, _)

\* scan_once
ScanValue(s, i) ==
    IF i > Len(s) THEN 0
    ELSE IF s[i] = "\"" THEN ScanString(s, i + 1)
    ELSE IF s[i] = "{"
         THEN LET j == SkipWs(s, i + 1)
              IN  IF At(s, j) = "}" THEN j + 1 ELSE ScanMembers(s, j)
    ELSE IF s[i] = "["
         THEN LET j == SkipWs(s, i + 1)
              IN  IF At(s, j) = "]" THEN j + 1 ELSE ScanElements(s, j)
    ELSE IF HasAt(s, i, <<"n", "u", "l", "l">>) THEN i + 4
    ELSE IF HasAt(s, i, <<"t", "r", "u", "e">>) THEN i + 4
    ELSE IF HasAt(s, i, <<"f", "a", "l", "s", "e">>) THEN i + 5
    ELSE IF ScanNumber(s, i) # 0 THEN ScanNumber(s, i)
    ELSE IF HasAt(s, i, <<"N", "a", "N">>) THEN i + 3
    ELSE IF HasAt(s, i, <<"I", "n", "f", "i", "n", "i", "t", "y">>) THEN i + 8
    ELSE IF HasAt(s, i, <<"-", "I", "n", "f", "i", "n", "i", "t", "y">>) THEN i + 9
    ELSE 0

\* JSONArray after '[' and whitespace, from the first element on
ScanElements(s, i) ==
    LET v == ScanValue(s, i)
        k == SkipWs(s, v)
    IN  IF v <= 0 THEN v
        ELSE IF At(s, k) = "]" THEN k + 1
        ELSE IF At(s, k) = "," THEN ScanElements(s, SkipWs(s, k + 1))
        ELSE 0

\* JSONObject after '{' and whitespace, from the first property name on
ScanMembers(s, i) ==
    LET e == IF At(s, i) = "\"" THEN ScanString(s, i + 1) ELSE 0
        c == SkipWs(s, e)
        v == IF e # 0 /\ At(s, c) = ":" THEN ScanValue(s, SkipWs(s, c + 1)) ELSE 0
        k == SkipWs(s, v)
    IN  IF v <= 0 THEN v
        ELSE IF At(s, k) = "}" THEN k + 1
        ELSE IF At(s, k) = "," THEN ScanMembers(s, SkipWs(s, k + 1))
        ELSE 0

\* what json.loads(s) does: it returns a value, or raises
JsonValue == "value"
JSONDecodeError == "JSONDecodeError"
IntegerTooLong == "Exceeds the limit (4300 digits) for integer string conversion"

json_loads(s) ==
    LET v == ScanValue(s, SkipWs(s, 1))
    IN  IF v = -1 THEN IntegerTooLong
        ELSE IF v # 0 /\ SkipWs(s, v) = Len(s) + 1 THEN JsonValue
        ELSE JSONDecodeError

(***************************************************************************)
(* curlthis/formatter.py                                                   *)
(***************************************************************************)

http_prefixes == <<
    <<"G", "E", "T", " ">>, <<"P", "O", "S", "T", " ">>, <<"P", "U", "T", " ">>,
    <<"D", "E", "L", "E", "T", "E", " ">>, <<"P", "A", "T", "C", "H", " ">>,
    <<"H", "E", "A", "D", " ">>, <<"O", "P", "T", "I", "O", "N", "S", " ">>,
    <<"T", "R", "A", "C", "E", " ">>, <<"C", "O", "N", "N", "E", "C", "T", " ">>,
    <<"H", "T", "T", "P", "/">> >>

DefaultMethod == <<"G", "E", "T">>

\* the headers that set the proxy skipped as well
SkippedHeader_AlsoProxy(header) == Lower(header) \in {HostKey, CookieKey} \cup ProxyKeys

\* the skip test without .lower()
SkippedHeader_CaseSensitive(header) ==
    header \in {<<"H", "o", "s", "t">>, <<"C", "o", "o", "k", "i", "e">>}

\* if header.lower() in ('host', 'cookie'): continue
SkippedHeader(header) == Lower(header) \in {HostKey, CookieKey}

\* the -H arguments taken from the last header to the first
HeaderParts_Reversed(headers) ==
    LET kept == SelectSeq(headers, LAMBDA h : ~SkippedHeader(h[1]))
        n == Len(kept)
    IN  [k \in 1..n |->
            <<"-", "H", " ">>
                \o shlex_quote(kept[n + 1 - k][1] \o <<":", " ">> \o kept[n + 1 - k][2])]

\* the -H arguments: every header but Host and Cookie, in the dict's order
RECURSIVE HeaderParts(_)
HeaderParts(headers) ==
    IF headers = <<>> THEN <<>>
    ELSE LET header == headers[1][1]
             value  == headers[1][2]
         IN  (IF SkippedHeader(header) THEN <<>>
              ELSE << <<"-", "H", " ">> \o shlex_quote(header \o <<":", " ">> \o value) >>)
                 \o HeaderParts(Tail(headers))

\* if body and body.strip(), and the body does not start like an HTTP message
DataBody(body) ==
    /\ Truthy(body)
    /\ Strip(Val(body)) # <<>>
    /\ ~\E p \in 1..Len(http_prefixes) : StartsWith(Strip(Val(body)), http_prefixes[p])

\* the data argument: none, -d when json.loads returns, --data-raw when it
\* raises JSONDecodeError
BodyParts(body) ==
    IF DataBody(body)
    THEN IF json_loads(Val(body)) = JsonValue
         THEN << <<"-", "d", " ">> \o shlex_quote(Val(body)) >>
         ELSE << <<"-", "-", "d", "a", "t", "a", "-", "r", "a", "w", " ">>
                     \o shlex_quote(Val(body)) >>
    ELSE <<>>

\* except (json.JSONDecodeError, TypeError): any other exception of json.loads
\* leaves kadabra_format_curl
BodyRaises(body) ==
    DataBody(body) /\ json_loads(Val(body)) \notin {JsonValue, JSONDecodeError}

\* kadabra_format_curl: the raised error, or the returned string
kadabra_format_curl(rd) ==
    IF ~Truthy(rd.url) THEN Failure(MissingURL)
    ELSE IF BodyRaises(rd.body) THEN Failure(json_loads(Val(rd.body)))
    ELSE
    LET method == IF IsSome(rd.method) THEN Val(rd.method) ELSE DefaultMethod
        curl_parts ==
            << <<"c", "u", "r", "l", " ", "-", "X", " ">> \o method >>
            \o << shlex_quote(Val(rd.url)) >>
            \o (IF Truthy(rd.proxy)
                THEN << <<"-", "-", "p", "r", "o", "x", "y", " ">> \o shlex_quote(Val(rd.proxy)) >>
                ELSE <<>>)
            \o HeaderParts(rd.headers)
            \o (IF Truthy(rd.cookies)
                THEN << <<"-", "-", "c", "o", "o", "k", "i", "e", " ">>
                            \o shlex_quote(Val(rd.cookies)) >>
                ELSE <<>>)
            \o (IF Truthy(rd.cookie_jar)
                THEN << <<"-", "-", "c", "o", "o", "k", "i", "e", "-", "j", "a", "r", " ">>
                            \o shlex_quote(Val(rd.cookie_jar)) >>
                ELSE <<>>)
            \o BodyParts(rd.body)
    IN  [error |-> NoError, result |-> Some(Join(curl_parts, <<" ">>))]

(***************************************************************************)
(* The inputs: raw requests put together from request lines, header lines  *)
(* and what follows the headers, and records a caller builds itself        *)
(***************************************************************************)

\* how many header lines a generated raw request has at most
MaxHeaderLines == 2

RequestLines == {
    <<>>,
    <<"G", "E", "T">>,
    <<"G", "E", "T", " ", "/", "p">>,
    <<" ", "p", "o", "s", "t", "\t", "/", "a", "'", "b", " ", "H", "T", "T", "P", "/", "1", ".", "1">>,
    <<"F", "O", "O", " ", "/">>,
    <<"P", "u", "t", " ", "/", " ", "x", " ", "y">>}

HeaderLines == {
    <<"H", "o", "s", "t", ":", " ", "h">>,
    <<"H", "O", "S", "T", ":", "h", "t", "t", "p", ":", "/", "/", "h", " ">>,
    <<"H", "o", "s", "t", ":">>,
    <<"C", "o", "o", "k", "i", "e", ":", " ", "a", "=", "1", ";", " ", "b">>,
    <<"X", "-", "F", "o", "r", "w", "a", "r", "d", "e", "d", "-", "F", "o", "r", ":", " ", "p">>,
    <<"p", "r", "o", "x", "y", "-", "c", "o", "n", "n", "e", "c", "t", "i", "o", "n", ":", " ", "q">>,
    <<"x", " ", "y">>,
    <<"A", ":", " ", "i", "t", "'", "s">>,
    <<"a", ":", " ", "2">>,
    <<"A", ":", " ", "3">>}

\* after the header lines: nothing, trailing whitespace, or a blank line and a body
Tails == {
    <<>>,
    <<"\n", " ", "\r", "\n">>,
    <<"\n", "\n", "{", "\"", "a", "\"", ":", " ", "\"", "b", "'", "\"", "}">>,
    <<"\n", "\n", "x", " ", "y">>,
    <<"\n", " ", "\n", "G", "E", "T", " ", "/", "x", "\n", "H", "o", "s", "t", ":", " ", "z">>,
    <<"\n", "\n", "\n", " ", "{", "}", "\n">>}

HeaderBlocks == UNION {[1..n -> HeaderLines] : n \in 0..MaxHeaderLines}

RECURSIVE FollowingLines(_)
FollowingLines(block) ==
    IF block = <<>> THEN <<>>
    ELSE <<"\n">> \o Head(block) \o FollowingLines(Tail(block))

\* a JSON number of one digit more than int() converts
LongInteger == [i \in 1..(MaxStrDigits + 1) |-> "9"]

\* requests whose body is that number
LongBodyRequests ==
    {line \o <<"\n">> \o host \o <<"\n", "\n">> \o LongInteger :
        line \in {<<"G", "E", "T", " ", "/", "p">>, <<"P", "u", "t", " ", "/", " ", "x", " ", "y">>},
        host \in {<<"H", "o", "s", "t", ":", " ", "h">>,
                  <<"H", "O", "S", "T", ":", "h", "t", "t", "p", ":", "/", "/", "h", " ">>}}

\* the requests of the test fixtures
basic_get_request == <<
    "G", "E", "T", " ", "/", "a", "p", "i", "/", "v", "1", "/", "u", "s", "e", "r", "s", " ",
    "H", "T", "T", "P", "/", "1", ".", "1", "\n", "H", "o", "s", "t", ":", " ", "e", "x", "a",
    "m", "p", "l", "e", ".", "c", "o", "m", "\n", "A", "c", "c", "e", "p", "t", ":", " ", "a",
    "p", "p", "l", "i", "c", "a", "t", "i", "o", "n", "/", "j", "s", "o", "n", "\n" >>

post_json_request == <<
    "P", "O", "S", "T", " ", "/", "a", "p", "i", "/", "v", "1", "/", "u", "s", "e", "r", "s",
    " ", "H", "T", "T", "P", "/", "1", ".", "1", "\n", "H", "o", "s", "t", ":", " ", "e", "x",
    "a", "m", "p", "l", "e", ".", "c", "o", "m", "\n", "C", "o", "n", "t", "e", "n", "t", "-",
    "T", "y", "p", "e", ":", " ", "a", "p", "p", "l", "i", "c", "a", "t", "i", "o", "n", "/",
    "j", "s", "o", "n", "\n", "\n", "{", "\"", "n", "a", "m", "e", "\"", ":", " ", "\"", "J",
    "o", "h", "n", "\"", ",", " ", "\"", "e", "m", "a", "i", "l", "\"", ":", " ", "\"", "j",
    "o", "h", "n", "@", "e", "x", "a", "m", "p", "l", "e", ".", "c", "o", "m", "\"", "}", "\n" >>

patch_request == <<
    "P", "A", "T", "C", "H", " ", "/", "a", "p", "i", "/", "v", "1", "/", "u", "s", "e", "r",
    "s", "/", "1", "2", "3", " ", "H", "T", "T", "P", "/", "1", ".", "1", "\n", "H", "o", "s",
    "t", ":", " ", "e", "x", "a", "m", "p", "l", "e", ".", "c", "o", "m", "\n", "C", "o", "n",
    "t", "e", "n", "t", "-", "T", "y", "p", "e", ":", " ", "a", "p", "p", "l", "i", "c", "a",
    "t", "i", "o", "n", "/", "j", "s", "o", "n", "\n", "\n", "{", "\"", "n", "a", "m", "e",
    "\"", ":", " ", "\"", "J", "o", "h", "n", " ", "U", "p", "d", "a", "t", "e", "d", "\"",
    "}", "\n" >>

options_request == <<
    "O", "P", "T", "I", "O", "N", "S", " ", "/", "a", "p", "i", "/", "v", "1", "/", "u", "s",
    "e", "r", "s", " ", "H", "T", "T", "P", "/", "1", ".", "1", "\n", "H", "o", "s", "t", ":",
    " ", "e", "x", "a", "m", "p", "l", "e", ".", "c", "o", "m", "\n" >>

request_with_cookies == <<
    "G", "E", "T", " ", "/", "d", "a", "s", "h", "b", "o", "a", "r", "d", " ", "H", "T", "T",
    "P", "/", "1", ".", "1", "\n", "H", "o", "s", "t", ":", " ", "e", "x", "a", "m", "p", "l",
    "e", ".", "c", "o", "m", "\n", "C", "o", "o", "k", "i", "e", ":", " ", "s", "e", "s", "s",
    "i", "o", "n", "_", "i", "d", "=", "1", "2", "3", "4", "5", ";", " ", "t", "h", "e", "m",
    "e", "=", "d", "a", "r", "k", "\n" >>

request_with_proxy_headers == <<
    "G", "E", "T", " ", "/", " ", "H", "T", "T", "P", "/", "1", ".", "1", "\n", "H", "o", "s",
    "t", ":", " ", "e", "x", "a", "m", "p", "l", "e", ".", "c", "o", "m", "\n", "X", "-", "F",
    "o", "r", "w", "a", "r", "d", "e", "d", "-", "F", "o", "r", ":", " ", "1", "0", ".", "0",
    ".", "0", ".", "1", "\n", "P", "r", "o", "x", "y", "-", "C", "o", "n", "n", "e", "c", "t",
    "i", "o", "n", ":", " ", "k", "e", "e", "p", "-", "a", "l", "i", "v", "e", "\n" >>

FixtureRequests == {
    basic_get_request,
    post_json_request,
    patch_request,
    options_request,
    request_with_cookies,
    request_with_proxy_headers}

\* requests with Cookie lines: an empty value, two lines, an empty last line
CookieRequests == {
    <<"G", "E", "T", " ", "/", "p", "\n", "H", "o", "s", "t", ":", " ", "h", "\n", "C", "o",
      "o", "k", "i", "e", ":">>,
    <<"G", "E", "T", " ", "/", "p", "\n", "H", "o", "s", "t", ":", " ", "h", "\n", "C", "o",
      "o", "k", "i", "e", ":", " ", "a", "\n", "c", "o", "o", "k", "i", "e", ":", " ", "b",
      " ", "c">>,
    <<"G", "E", "T", " ", "/", "p", "\n", "C", "o", "o", "k", "i", "e", ":", " ", "x", " ",
      "y", "\n", "H", "o", "s", "t", ":", " ", "h", "\n", "c", "o", "o", "k", "i", "e", ":">>}

\* the requests the command-line tests convert
IntegrationRequests == {
    <<"G", "E", "T", " ", "/", "a", "p", "i", " ", "H", "T", "T", "P", "/", "1", ".", "1",
      "\n", "H", "o", "s", "t", ":", " ", "e", "x", "a", "m", "p", "l", "e", ".", "c", "o",
      "m">>,
    <<"P", "O", "S", "T", " ", "/", "a", "p", "i", " ", "H", "T", "T", "P", "/", "1", ".",
      "1", "\n", "H", "o", "s", "t", ":", " ", "e", "x", "a", "m", "p", "l", "e", ".", "c",
      "o", "m", "\n", "\n", "{", "}">>}

\* requests whose header lines repeat a name, differ in letter case only, lack
\* a colon, or name a proxy header with an empty value
HeaderRequests == {
    <<"G", "E", "T", " ", "/", "p", "\n", "A", ":", " ", "1", "\n", "n", "o", "c", "o",
      "l", "o", "n", "\n", "H", "o", "s", "t", ":", " ", "h", "\n", "A", ":", " ", "2">>,
    <<"G", "E", "T", " ", "/", "p", "\n", "H", "o", "s", "t", ":", " ", "h", "\n", "C",
      "o", "n", "t", "e", "n", "t", "-", "T", "y", "p", "e", ":", " ", "a", "\n", "c", "o",
      "n", "t", "e", "n", "t", "-", "t", "y", "p", "e", ":", " ", "b">>,
    <<"G", "E", "T", " ", "/", "p", "\n", "H", "o", "s", "t", ":", " ", "h", "\n", "X",
      "-", "F", "o", "r", "w", "a", "r", "d", "e", "d", "-", "F", "o", "r", ":", " ", "p",
      "\n", "P", "r", "o", "x", "y", "-", "C", "o", "n", "n", "e", "c", "t", "i", "o", "n",
      ":">>,
    <<"G", "E", "T", " ", "/", "p", "\n", "H", "o", "s", "t", ":", " ", "h", "\n", "X",
      "-", "F", "o", "r", "w", "a", "r", "d", "e", "d", "-", "F", "o", "r", ":">>,
    <<"G", "E", "T", " ", "/", "p", "\n", "h", "o", "s", "t", ":", " ", "g", "\n", "B",
      ":", " ", "1", "\n", "H", "O", "S", "T", ":", " ", "h", "\n", "\n", " ", "\n", "x">>}

\* request lines that are rejected whatever the headers are: they are followed
\* by one header line at most
RejectedRequestLines == {<<>>, <<"G", "E", "T">>, <<"F", "O", "O", " ", "/">>}

BlocksAfter(line) ==
    IF line \in RejectedRequestLines THEN {block \in HeaderBlocks : Len(block) <= 1}
    ELSE HeaderBlocks

RawRequests ==
    UNION {{line \o FollowingLines(block) \o tail :
                block \in BlocksAfter(line), tail \in Tails} : line \in RequestLines}
    \cup LongBodyRequests
    \cup FixtureRequests
    \cup CookieRequests
    \cup IntegrationRequests
    \cup HeaderRequests

DirectHeaders == {
    <<>>,
    << <<<<"H", "o", "s", "t">>, <<"h">>>>, <<<<"X">>, <<"i", "t", "'", "s">>>> >>,
    << <<<<"c", "o", "o", "k", "i", "e">>, <<"c">>>>, <<<<"B">>, <<>>>> >>,
    << <<<<"b">>, <<"1">>>>, <<<<"C", "o", "o", "k", "i", "e">>, <<"k">>>>,
       <<<<"A">>, <<"x", " ", "y">>>> >>}

DirectRecords ==
    [method : {None, Some(<<"P", "O", "S", "T">>)},
     url : {None, Some(<<>>), Some(<<"h", "/", "a", " ", "b">>),
            Some(<<"h", "t", "t", "p", "s", ":", "/", "/", "h", "/", "p">>)},
     headers : DirectHeaders,
     body : {None, Some(<<" ">>), Some(<<"{", "}">>), Some(<<"a", ";", "b">>),
             Some(<<" ", "H", "T", "T", "P", "/", "1", ".", "1">>)},
     cookies : {None, Some(<<"a", "=", "1", ";", " ", "b">>)},
     proxy : {None, Some(<<"h", "t", "t", "p", ":", "/", "/", "p", ":", "8">>)},
     cookie_jar : {None, Some(<<"m", "y", " ", "j", "a", "r">>)}]
    \cup
    [method : {Some(<<"P", "O", "S", "T">>)},
     url : {Some(<<"h", "t", "t", "p", "s", ":", "/", "/", "h", "/", "p">>)},
     headers : DirectHeaders,
     body : {Some(LongInteger), Some(<<"[">> \o LongInteger \o <<"]">>),
             Some(LongInteger \o <<".", "0">>)},
     cookies : {None},
     proxy : {None},
     cookie_jar : {None}]

(***************************************************************************)
(* Callers of the library at the same time                                 *)
(***************************************************************************)

\* how many callers use the two functions at once
MaxCallers == 2

Callers == 1..MaxCallers

\* a caller that is in neither function
IdleFrame ==
    [fn |-> "none", arg |-> <<>>, at |-> "idle", locals |-> <<>>, result |-> None,
     overlapped |-> FALSE]

NoCalls == calls = [c \in Callers |-> IdleFrame]

(***************************************************************************)
(* The pipeline: parse, then format                                        *)
(***************************************************************************)

\* the two functions called as a library: there is no command line
NoCommandLine ==
    /\ argv = None
    /\ env = None
    /\ stdout = <<>>
    /\ stderr = <<>>
    /\ copied = None
    /\ exit_code = None
    /\ stages = <<>>

\* A run starts with a raw request to convert, or with none when the caller
\* hands kadabra_format_curl a record of its own.
Init ==
    /\ raw_request \in {None} \cup {Some(raw) : raw \in RawRequests}
    /\ request_data = None
    /\ curl_command = None
    /\ error = NoError
    /\ pc = "start"
    /\ NoCommandLine
    /\ NoCalls

\* request_data = alakazam_parse_request(raw_request)
ParseRequest ==
    /\ pc = "start"
    /\ IsSome(raw_request)
    /\ \E r \in {alakazam_parse_request(Val(raw_request))} :
           /\ request_data' = r.result
           /\ error' = r.error
           /\ pc' = IF r.error = NoError THEN "parsed" ELSE "parse_failed"
    /\ UNCHANGED <<raw_request, curl_command>>
    /\ UNCHANGED cli_vars
    /\ UNCHANGED calls

\* a caller builds the request record itself
BuildRecord ==
    /\ pc = "start"
    /\ raw_request = None
    /\ \E rd \in DirectRecords : request_data' = Some(rd)
    /\ pc' = "parsed"
    /\ UNCHANGED <<raw_request, curl_command, error>>
    /\ UNCHANGED cli_vars
    /\ UNCHANGED calls

\* curl_command = kadabra_format_curl(request_data)
FormatCurl ==
    /\ pc = "parsed"
    /\ \E r \in {kadabra_format_curl(Val(request_data))} :
           /\ curl_command' = r.result
           /\ error' = r.error
           /\ pc' = IF r.error = NoError THEN "formatted" ELSE "format_failed"
    /\ UNCHANGED <<raw_request, request_data>>
    /\ UNCHANGED cli_vars
    /\ UNCHANGED calls

Next == ParseRequest \/ BuildRecord \/ FormatCurl

Spec == Init /\ [][Next]_vars

TypeOK ==
    /\ pc \in {"start", "parsed", "parse_failed", "formatted", "format_failed"}
    /\ error \in {NoError, EmptyInput, MalformedRequestLine, InvalidMethod,
                  MissingHost, MissingURL, IntegerTooLong}
    /\ Len(raw_request) <= 1 /\ Len(request_data) <= 1 /\ Len(curl_command) <= 1

(***************************************************************************)
(* The command line: machamp_process_request (curlthis/main.py)            *)
(***************************************************************************)

\* what console.print shows: the banner, a progress or success message, or
\* the panel that holds the generated command
Banner == "curlthis v0.1.0"
ReadingFromFile == "Reading from file"
ReadingFromStdin == "Reading from stdin"
ReadingFromClipboard == "Reading from clipboard"
ParsingRequest == "Parsing raw request..."
FormattingCommand == "Formatting as curl command..."
GeneratedCommand == "Generated curl command"
CopiedToClipboard == "Copied to clipboard"

Shown(text) == [text |-> text, command |-> None]
Panel(command) == [text |-> GeneratedCommand, command |-> Some(command)]

\* what primeape_show_error prints on the error console: the message and,
\* when there is one, the text of the exception
NoInputProvided == "No input provided"
UnexpectedError == "An unexpected error occurred"
ClipboardReadFailed == "Failed to read from clipboard"
ClipboardCopyFailed == "Failed to copy to clipboard"
NoSuchOption == "No such option"
ClipboardUnavailable == "PyperclipException"
ConsoleFailure == "console.print raised"

Reported(message, exception) == [message |-> message, exception |-> exception]

\* the options click knows are -f, -c and -v; anything else on the command
\* line is a usage error of click, with its exit code
UsageExit == 2
NormalExit == 0

\* what the input source returns, and --proxy and --cookie-jar values as the
\* command-line tests pass them
CliTexts ==
    {<<>>, <<" ", "\n">>,
     <<"F", "O", "O", " ", "/", "\n", "H", "o", "s", "t", ":", " ", "h">>,
     <<"G", "E", "T", " ", "/", "p">>,
     <<"G", "E", "T", " ", "/", "p", "\n", "H", "o", "s", "t", ":", " ", "h", "\n", "\n">>
         \o LongInteger,
     request_with_cookies}
    \cup IntegrationRequests

CliProxy == <<"h", "t", "t", "p", ":", "/", "/", "p", "r", "o", "x", "y", ":", "8", "0", "8", "0">>
CliCookieJar == <<"c", "o", "o", "k", "i", "e", "s", ".", "t", "x", "t">>

\* the command line: -f given or not, the -c and -v flags, and the two
\* options the command-line tests pass
CommandLines ==
    [file : BOOLEAN, clipboard : BOOLEAN, verbose : BOOLEAN,
     proxy : {None, Some(CliProxy)}, cookie_jar : {None, Some(CliCookieJar)}]

\* the environment: the text the input source holds, whether stdin is a
\* terminal, and whether pyperclip.paste, console.print and pyperclip.copy work
Environments ==
    [text : CliTexts, tty : BOOLEAN, paste_ok : BOOLEAN, display_ok : BOOLEAN,
     copy_ok : BOOLEAN]

\* the environment of a command line; what the run cannot read or use (the
\* clipboard when a file or a pipe is the source, the text when the paste
\* fails, the copy without -c) is not varied
EnvironmentsOf(a) ==
    {e \in Environments :
        /\ (a.file \/ ~e.tty) => e.paste_ok
        /\ a.file => e.tty
        /\ ~e.paste_ok => e.text = <<>>
        /\ ~a.clipboard => e.copy_ok}

CliInit ==
    /\ argv \in {Some(a) : a \in CommandLines}
    /\ env \in {Some(e) : e \in EnvironmentsOf(Val(argv))}
    /\ raw_request = None
    /\ request_data = None
    /\ curl_command = None
    /\ error = NoError
    /\ stdout = <<>>
    /\ stderr = <<>>
    /\ copied = None
    /\ exit_code = None
    /\ stages = <<>>
    /\ pc = "invoked"
    /\ NoCalls

Options == Val(argv)
Environment == Val(env)

\* console.print of a progress message, under -v only
Progress(out, text) == IF Options.verbose THEN Append(out, Shown(text)) ELSE out

\* click reads the command line, then the function prints its banner
Invoke ==
    /\ pc = "invoked"
    /\ IF IsSome(Options.proxy) \/ IsSome(Options.cookie_jar)
       THEN /\ stderr' = Append(stderr, Reported(NoSuchOption, NoError))
            /\ exit_code' = Some(UsageExit)
            /\ pc' = "exited"
            /\ UNCHANGED stdout
       ELSE /\ stdout' = Append(stdout, Shown(Banner))
            /\ pc' = "begun"
            /\ UNCHANGED <<stderr, exit_code>>
    /\ UNCHANGED <<calls, raw_request, request_data, curl_command, error, argv, env, copied, stages>>

\* the input is read from the file, from stdin when it is not a terminal, or
\* from the clipboard; an input that is empty when stripped ends the run
ReadInput ==
    /\ pc = "begun"
    /\ stages' = Append(stages, "read")
    /\ IF ~Options.file /\ Environment.tty /\ ~Environment.paste_ok
       THEN /\ stderr' = Append(stderr, Reported(ClipboardReadFailed, ClipboardUnavailable))
            /\ pc' = "read_failed"
            /\ UNCHANGED <<raw_request, stdout>>
       ELSE /\ raw_request' = Some(Environment.text)
            /\ stdout' = Progress(stdout,
                            IF Options.file THEN ReadingFromFile
                            ELSE IF ~Environment.tty THEN ReadingFromStdin
                            ELSE ReadingFromClipboard)
            /\ IF Strip(Environment.text) = <<>>
               THEN /\ stderr' = Append(stderr, Reported(NoInputProvided, NoError))
                    /\ pc' = "no_input"
               ELSE /\ pc' = "read"
                    /\ UNCHANGED stderr
    /\ UNCHANGED <<calls, request_data, curl_command, error, argv, env, copied, exit_code>>

\* what alakazam_parse_request does on each text the run can read, and what
\* kadabra_format_curl does on each record it returns
ParseOutcomes == [text \in CliTexts |-> alakazam_parse_request(text)]
FormatOutcomes ==
    [data \in {ParseOutcomes[text].result : text \in CliTexts} \ {None} |->
        kadabra_format_curl(Val(data))]

\* request_data = alakazam_parse_request(raw_request); what it raises is
\* caught by the except clause of the function and reported
CliParse ==
    /\ pc = "read"
    /\ stages' = Append(stages, "parse")
    /\ stdout' = Progress(stdout, ParsingRequest)
    /\ \E r \in {ParseOutcomes[Val(raw_request)]} :
           /\ request_data' = r.result
           /\ error' = r.error
           /\ IF r.error = NoError
              THEN pc' = "parsed" /\ UNCHANGED stderr
              ELSE /\ pc' = "parse_failed"
                   /\ stderr' = Append(stderr, Reported(UnexpectedError, r.error))
    /\ UNCHANGED <<calls, raw_request, curl_command, argv, env, copied, exit_code>>

\* curl_command = kadabra_format_curl(request_data), under the same except clause
CliFormat ==
    /\ pc = "parsed"
    /\ stages' = Append(stages, "format")
    /\ stdout' = Progress(stdout, FormattingCommand)
    /\ \E r \in {FormatOutcomes[request_data]} :
           /\ curl_command' = r.result
           /\ error' = r.error
           /\ IF r.error = NoError
              THEN pc' = "formatted" /\ UNCHANGED stderr
              ELSE /\ pc' = "format_failed"
                   /\ stderr' = Append(stderr, Reported(UnexpectedError, r.error))
    /\ UNCHANGED <<calls, raw_request, request_data, argv, env, copied, exit_code>>

\* the panel printed although the formatter raised
Display_AfterFailure ==
    /\ pc \in {"formatted", "format_failed"}
    /\ stages' = Append(stages, "display")
    /\ stdout' = Append(stdout, Panel(IF IsSome(curl_command) THEN Val(curl_command) ELSE <<>>))
    /\ pc' = "displayed"
    /\ UNCHANGED <<calls, raw_request, request_data, curl_command, error, argv, env, copied,
                   exit_code, stderr>>

\* console.print(result_panel)
Display ==
    /\ pc = "formatted"
    /\ stages' = Append(stages, "display")
    /\ IF Environment.display_ok
       THEN /\ stdout' = Append(stdout, Panel(Val(curl_command)))
            /\ pc' = "displayed"
            /\ UNCHANGED stderr
       ELSE /\ stderr' = Append(stderr, Reported(UnexpectedError, ConsoleFailure))
            /\ pc' = "display_failed"
            /\ UNCHANGED stdout
    /\ UNCHANGED <<calls, raw_request, request_data, curl_command, error, argv, env, copied,
                   exit_code>>

\* a failed copy that takes the panel back from the output
CopyToClipboard_Retracts ==
    /\ pc = "displayed"
    /\ Options.clipboard
    /\ stages' = Append(stages, "copy")
    /\ IF Environment.copy_ok
       THEN /\ copied' = curl_command
            /\ stdout' = Append(stdout, Shown(CopiedToClipboard))
            /\ pc' = "copied"
            /\ UNCHANGED stderr
       ELSE /\ stderr' = Append(stderr, Reported(ClipboardCopyFailed, ClipboardUnavailable))
            /\ stdout' = SelectSeq(stdout, LAMBDA shown : shown.command = None)
            /\ pc' = "copy_failed"
            /\ UNCHANGED copied
    /\ UNCHANGED <<calls, raw_request, request_data, curl_command, error, argv, env, exit_code>>

\* if clipboard: pyperclip.copy(curl_command), in its own try
CopyToClipboard ==
    /\ pc = "displayed"
    /\ Options.clipboard
    /\ stages' = Append(stages, "copy")
    /\ IF Environment.copy_ok
       THEN /\ copied' = curl_command
            /\ stdout' = Append(stdout, Shown(CopiedToClipboard))
            /\ pc' = "copied"
            /\ UNCHANGED stderr
       ELSE /\ stderr' = Append(stderr, Reported(ClipboardCopyFailed, ClipboardUnavailable))
            /\ pc' = "copy_failed"
            /\ UNCHANGED <<copied, stdout>>
    /\ UNCHANGED <<calls, raw_request, request_data, curl_command, error, argv, env, exit_code>>

\* the function returns, by a return statement or at its end, and click exits
Return ==
    /\ \/ pc \in {"read_failed", "no_input", "parse_failed", "format_failed",
                  "display_failed", "copied", "copy_failed"}
       \/ pc = "displayed" /\ ~Options.clipboard
    /\ exit_code' = Some(NormalExit)
    /\ pc' = "exited"
    /\ UNCHANGED <<calls, raw_request, request_data, curl_command, error, argv, env, stdout,
                   stderr, copied, stages>>

CliNext ==
    Invoke \/ ReadInput \/ CliParse \/ CliFormat \/ Display \/ CopyToClipboard \/ Return

CliSpec == CliInit /\ [][CliNext]_vars

\* the interpreter runs the function statement after statement until it
\* returns: a step that can be taken is taken
CliLiveSpec == CliInit /\ [][CliNext]_vars /\ WF_vars(CliNext)

(***************************************************************************)
(* Several callers in alakazam_parse_request and kadabra_format_curl at    *)
(* once: each call runs statement by statement on the local variables of   *)
(* its own frame, and the callers' steps interleave in any order           *)
(***************************************************************************)

ConcurrentRequests == {
    <<"G", "E", "T", " ", "/", "p", "\n", "H", "o", "s", "t", ":", " ", "h", "\n", "C", "o",
      "o", "k", "i", "e", ":", " ", "a", "\n", "\n", "{", "}">>,
    <<"p", "u", "t", " ", "/", "q", "\n", "A", ":", " ", "1", "\n", "h", "o", "s", "t", ":",
      " ", "h", "t", "t", "p", ":", "/", "/", "g">>,
    <<"G", "E", "T", " ", "/", "p", "\n", "A", ":", " ", "1">>,
    <<"F", "O", "O", " ", "/">>}

\* the records handed to kadabra_format_curl: those the parser returned, one
\* without a url, and one with every optional field
ConcurrentRecords ==
    {Val(alakazam_parse_request(raw).result) :
        raw \in {r \in ConcurrentRequests : alakazam_parse_request(r).error = NoError}}
    \cup
    {[method |-> Some(<<"P", "O", "S", "T">>), url |-> None, headers |-> <<>>,
      body |-> None, cookies |-> None, proxy |-> None, cookie_jar |-> None],
     [method |-> None, url |-> Some(<<"h", "/", "a", " ", "b">>),
      headers |-> << <<<<"b">>, <<"1">>>>, <<<<"C", "o", "o", "k", "i", "e">>, <<"k">>>>,
                     <<<<"A">>, <<"x", " ", "y">>>> >>,
      body |-> Some(<<"a", ";", "b">>), cookies |-> Some(<<"k">>),
      proxy |-> Some(<<"p", ":", "8">>), cookie_jar |-> Some(<<"j">>)]}

InProgress(frame) == frame.at \notin {"idle", "returned"}

\* the locals of every call of the same function kept in one place, as
\* module-level variables would be
Store_SharedLocals(c, frame) ==
    [d \in Callers |->
        IF d = c THEN frame
        ELSE IF InProgress(frame) /\ InProgress(calls[d]) /\ calls[d].fn = frame.fn
             THEN [calls[d] EXCEPT !.locals = frame.locals]
        ELSE calls[d]]

\* an assignment in a function body binds a local variable of that call
Store(c, frame) == [calls EXCEPT ![c] = frame]

\* the calls that were in progress while caller c took a step
Overlap(c, frames) ==
    [d \in Callers |->
        IF d # c /\ InProgress(frames[d]) THEN [frames[d] EXCEPT !.overlapped = TRUE]
        ELSE frames[d]]

\* return, or raise, out of the call
Returned(frame, outcome) == [frame EXCEPT !.at = "returned", !.result = Some(outcome)]

LibraryOnly ==
    /\ raw_request = None
    /\ request_data = None
    /\ curl_command = None
    /\ error = NoError
    /\ pc = "library"
    /\ NoCommandLine

ConcInit == NoCalls /\ LibraryOnly

\* alakazam_parse_request(raw) is entered: the request line is checked and the
\* locals of the header loop are set up
CallParse(c) ==
    /\ calls[c].at = "idle"
    /\ \E raw \in ConcurrentRequests :
        LET lines == Split(Strip(raw), "\n")
            frame == [IdleFrame EXCEPT !.fn = "parse", !.arg = raw]
            parts == SplitWhitespace(Strip(lines[1]))
            method == StoredMethod(parts[1])
        IN  calls' = Overlap(c, Store(c,
                IF IsEmptyRequest(lines) THEN Returned(frame, Failure(EmptyInput))
                ELSE IF TooFewParts(parts) THEN Returned(frame, Failure(MalformedRequestLine))
                ELSE IF method \notin VALID_METHODS THEN Returned(frame, Failure(InvalidMethod))
                ELSE [frame EXCEPT !.at = "loop",
                                   !.locals = [lines |-> lines, method |-> method,
                                               path |-> parts[2], i |-> 1,
                                               st |-> ScanStart(lines)]]))
    /\ UNCHANGED <<raw_request, request_data, curl_command, error, pc>>
    /\ UNCHANGED cli_vars

\* one iteration of the header loop, or its end
ParseLoop(c) ==
    /\ calls[c].at = "loop"
    /\ LET l == calls[c].locals
       IN  calls' = Overlap(c, Store(c,
               IF l.i >= Len(l.lines) THEN [calls[c] EXCEPT !.at = "after_loop"]
               ELSE IF Strip(l.lines[l.i + 1]) = <<>>
                    THEN [calls[c] EXCEPT !.at = "after_loop",
                                          !.locals.st.body_start_index = l.i + 1]
               ELSE [calls[c] EXCEPT !.locals.i = l.i + 1,
                                     !.locals.st = ScanLine(l.st, l.lines[l.i + 1])]))
    /\ UNCHANGED <<raw_request, request_data, curl_command, error, pc>>
    /\ UNCHANGED cli_vars

\* the Host check, the body, the url and the return
ParseReturn(c) ==
    /\ calls[c].at = "after_loop"
    /\ LET l == calls[c].locals
       IN  calls' = Overlap(c, Store(c,
               Returned(calls[c], ParseResult(l.lines, l.method, l.path, l.st))))
    /\ UNCHANGED <<raw_request, request_data, curl_command, error, pc>>
    /\ UNCHANGED cli_vars

\* kadabra_format_curl(request_data) is entered: the url check, the fields
\* fetched from the record, and curl_parts up to the proxy
CallFormat(c) ==
    /\ calls[c].at = "idle"
    /\ \E rd \in ConcurrentRecords :
        LET frame == [IdleFrame EXCEPT !.fn = "format", !.arg = rd]
            method == IF IsSome(rd.method) THEN Val(rd.method) ELSE DefaultMethod
        IN  calls' = Overlap(c, Store(c,
                IF ~Truthy(rd.url) THEN Returned(frame, Failure(MissingURL))
                ELSE [frame EXCEPT
                        !.at = "headers",
                        !.locals =
                            [headers |-> rd.headers, body |-> rd.body,
                             cookies |-> rd.cookies, cookie_jar |-> rd.cookie_jar,
                             i |-> 0,
                             curl_parts |->
                                << <<"c", "u", "r", "l", " ", "-", "X", " ">> \o method,
                                   shlex_quote(Val(rd.url)) >>
                                \o (IF Truthy(rd.proxy)
                                    THEN << <<"-", "-", "p", "r", "o", "x", "y", " ">>
                                                \o shlex_quote(Val(rd.proxy)) >>
                                    ELSE <<>>)]]))
    /\ UNCHANGED <<raw_request, request_data, curl_command, error, pc>>
    /\ UNCHANGED cli_vars

\* one iteration of the loop over headers.items(), or its end
FormatHeader(c) ==
    /\ calls[c].at = "headers"
    /\ LET l == calls[c].locals
       IN  calls' = Overlap(c, Store(c,
               IF l.i >= Len(l.headers) THEN [calls[c] EXCEPT !.at = "tail"]
               ELSE [calls[c] EXCEPT
                       !.locals.i = l.i + 1,
                       !.locals.curl_parts =
                           l.curl_parts \o HeaderParts(<<l.headers[l.i + 1]>>)]))
    /\ UNCHANGED <<raw_request, request_data, curl_command, error, pc>>
    /\ UNCHANGED cli_vars

\* the cookies, the cookie jar, the body, and the joined string returned
FormatReturn(c) ==
    /\ calls[c].at = "tail"
    /\ LET l == calls[c].locals
           curl_parts ==
               l.curl_parts
               \o (IF Truthy(l.cookies)
                   THEN << <<"-", "-", "c", "o", "o", "k", "i", "e", " ">>
                               \o shlex_quote(Val(l.cookies)) >>
                   ELSE <<>>)
               \o (IF Truthy(l.cookie_jar)
                   THEN << <<"-", "-", "c", "o", "o", "k", "i", "e", "-", "j", "a", "r", " ">>
                               \o shlex_quote(Val(l.cookie_jar)) >>
                   ELSE <<>>)
       IN  calls' = Overlap(c, Store(c,
               IF BodyRaises(l.body)
               THEN Returned(calls[c], Failure(json_loads(Val(l.body))))
               ELSE Returned(calls[c],
                        [error |-> NoError,
                         result |-> Some(Join(curl_parts \o BodyParts(l.body), <<" ">>))])))
    /\ UNCHANGED <<raw_request, request_data, curl_command, error, pc>>
    /\ UNCHANGED cli_vars

\* the caller has the result and is free to call again
Release(c) ==
    /\ calls[c].at = "returned"
    /\ calls' = Overlap(c, Store(c, IdleFrame))
    /\ UNCHANGED <<raw_request, request_data, curl_command, error, pc>>
    /\ UNCHANGED cli_vars

ConcNext ==
    \E c \in Callers :
        \/ CallParse(c)
        \/ ParseLoop(c)
        \/ ParseReturn(c)
        \/ CallFormat(c)
        \/ FormatHeader(c)
        \/ FormatReturn(c)
        \/ Release(c)

ConcSpec == ConcInit /\ [][ConcNext]_vars

(***************************************************************************)
(* What the properties speak of: the raw request as the parser's contract  *)
(* reads it, and the command as a POSIX shell reads it                     *)
(***************************************************************************)

Blank(s) == \A i \in 1..Len(s) : s[i] \in Whitespace

\* the lines of the trimmed request
RequestTextLines(raw) == Split(Strip(raw), "\n")

\* how many whitespace-separated tokens a line has: the places where one begins
TokenCount(line) ==
    Cardinality({i \in 1..Len(line) :
        line[i] \notin Whitespace /\ (i = 1 \/ line[i - 1] \in Whitespace)})

RequestTokens(raw) == SplitWhitespace(RequestTextLines(raw)[1])

\* the request line has a method and a path, and the method is allow-listed in some case
GoodRequestLine(raw) ==
    /\ ~Blank(raw)
    /\ TokenCount(RequestTextLines(raw)[1]) >= 2
    /\ Upper(RequestTokens(raw)[1]) \in VALID_METHODS

\* the indices of the header lines: after the request line, before the first blank line
HeaderRange(raw) ==
    LET lines == RequestTextLines(raw)
    IN  {i \in 2..Len(lines) : \A j \in 2..i : ~Blank(lines[j])}

HasColon(line) == \E k \in 1..Len(line) : line[k] = ":"
HeaderName(line) == Strip(SplitOnce(line, ":")[1])
HeaderValue(line) == Strip(SplitOnce(line, ":")[2])

\* the header lines that carry the given name (lower case), whatever their letter case
LinesNamed(raw, names) ==
    LET lines == RequestTextLines(raw)
    IN  {i \in 2..Len(lines) :
            /\ \A j \in 2..i : ~Blank(lines[j])
            /\ HasColon(lines[i])
            /\ Lower(HeaderName(lines[i])) \in names}

Last(S) == CHOOSE i \in S : \A j \in S : j <= i

\* the value of the last Host line
TrackedHost(raw) == HeaderValue(RequestTextLines(raw)[Last(LinesNamed(raw, {HostKey}))])

\* The command as sh splits it into words: blanks separate words, '...' is
\* literal, "..." is literal but for backslash escapes, a backslash outside
\* quotes makes the next character literal, and an unquoted operator character
\* ends the word and stands alone.  word is None between words.
ShellOperators == {";", "&", "|", "<", ">", "(", ")"}
Started(word) == IF IsSome(word) THEN word ELSE Some(<<>>)
Closed(words, word) == IF IsSome(word) THEN Append(words, Val(word)) ELSE words

\* the first index at or after i that holds one of the given characters
NextOf(s, i, chars) ==
    LET stop == {j \in i..Len(s) : s[j] \in chars}
    IN  IF stop = {} THEN Len(s) + 1 ELSE CHOOSE j \in stop : \A k \in stop : j <= k

ShellSpecial == {" ", "\t", "\n", "'", "\"", "\\"} \cup ShellOperators

\* from index i on, a run of ordinary characters at a time
RECURSIVE ShellScan(_, _, _, _, _)
ShellScan(s, i, mode, word, words) ==
    IF i > Len(s) THEN Closed(words, word)
    ELSE LET j == NextOf(s, i, IF mode = "single" THEN {"'"}
                               ELSE IF mode = "double" THEN {"\"", "\\"}
                               ELSE ShellSpecial)
             run == IF j > i THEN Some(Val(Started(word)) \o SubSeq(s, i, j - 1)) ELSE word
             c == At(s, j)
             put(x) == Some(Val(Started(run)) \o <<x>>)
         IN  CASE j > Len(s) -> Closed(words, run)
               [] j <= Len(s) /\ mode = "single" -> ShellScan(s, j + 1, "plain", run, words)
               [] j <= Len(s) /\ mode = "double" /\ c = "\"" ->
                    ShellScan(s, j + 1, "plain", run, words)
               [] j <= Len(s) /\ mode = "double" /\ c = "\\" ->
                    IF At(s, j + 1) \in {"\"", "\\", "$"}
                    THEN ShellScan(s, j + 2, mode, put(s[j + 1]), words)
                    ELSE ShellScan(s, j + 1, mode, put(c), words)
               [] j <= Len(s) /\ mode = "plain" /\ c \in {" ", "\t", "\n"} ->
                    ShellScan(s, j + 1, mode, None, Closed(words, run))
               [] j <= Len(s) /\ mode = "plain" /\ c \in ShellOperators ->
                    ShellScan(s, j + 1, mode, None, Append(Closed(words, run), <<c>>))
               [] j <= Len(s) /\ mode = "plain" /\ c = "'" ->
                    ShellScan(s, j + 1, "single", Started(run), words)
               [] j <= Len(s) /\ mode = "plain" /\ c = "\"" ->
                    ShellScan(s, j + 1, "double", Started(run), words)
               [] j <= Len(s) /\ mode = "plain" /\ c = "\\" ->
                    IF j < Len(s) THEN ShellScan(s, j + 2, mode, put(s[j + 1]), words)
                    ELSE ShellScan(s, j + 1, mode, put(c), words)

ShellWords(s) == ShellScan(s, 1, "plain", None, <<>>)

\* the states of a run that converts a raw request, and of any run, after each stage
AfterParse == IsSome(raw_request) /\ pc \in {"parsed", "parse_failed"}
Converted == IsSome(raw_request) /\ pc = "formatted"
Formatted == pc = "formatted"

Record == Val(request_data)
Command == Val(curl_command)
Raw == Val(raw_request)

CommandWords == ShellWords(Command)

\* the words after "curl -X <method> <url>", two by two: <<flag, value>>
Arguments ==
    LET words == CommandWords
    IN  [n \in 1..((Len(words) - 4) \div 2) |-> <<words[3 + 2 * n], words[4 + 2 * n]>>]

FlagsNamed(args, names) == {n \in 1..Len(args) : args[n][1] \in names}

DataFlag == <<"-", "d">>
DataRawFlag == <<"-", "-", "d", "a", "t", "a", "-", "r", "a", "w">>
HeaderFlag == <<"-", "H">>
CookieFlag == <<"-", "-", "c", "o", "o", "k", "i", "e">>
CookieJarFlag == <<"-", "-", "c", "o", "o", "k", "i", "e", "-", "j", "a", "r">>
ProxyFlag == <<"-", "-", "p", "r", "o", "x", "y">>

EndsWith(s, suffix) ==
    /\ Len(suffix) <= Len(s)
    /\ SubSeq(s, Len(s) - Len(suffix) + 1, Len(s)) = suffix

(***************************************************************************)
(* Properties                                                              *)
(***************************************************************************)

CurlX == <<"c", "u", "r", "l", " ", "-", "X", " ">>

\* the command opens with "curl -X <method> <escaped url>" and the url ends there
OpensWith(method, url) ==
    LET opening == CurlX \o method \o <<" ">> \o shlex_quote(url)
    IN  /\ StartsWith(Command, opening)
        /\ Len(Command) = Len(opening) \/ Command[Len(opening) + 1] = " "

\* a conversion that has ended went through and its command opens as it should
ConvertedWell ==
    /\ pc = "formatted"
    /\ OpensWith(Upper(RequestTokens(Raw)[1]), Val(Record.url))

Ended == IsSome(raw_request) /\ pc \in {"parse_failed", "formatted", "format_failed"}

\* C1 with "a non-empty Host header" read as any Host line: whenever the request
\* line has an allow-listed method (in any letter case) and a path, and some Host
\* header line has a non-empty value, parsing and formatting succeed and the
\* command starts with "curl -X <METHOD> " followed by the escaped URL.
C1_AnyHostLine ==
    (/\ Ended
     /\ GoodRequestLine(Raw)
     /\ \E i \in LinesNamed(Raw, {HostKey}) : HeaderValue(RequestTextLines(Raw)[i]) # <<>>)
        => ConvertedWell

\* C1 with the Host header read as the parser tracks it: whenever the request
\* line has an allow-listed method (in any letter case) and a path, and the last
\* Host header line has a non-empty value, parsing and formatting succeed and the
\* command starts with "curl -X <METHOD> " followed by the escaped URL.
C1_LastHostLine ==
    (/\ Ended
     /\ GoodRequestLine(Raw)
     /\ LinesNamed(Raw, {HostKey}) # {}
     /\ TrackedHost(Raw) # <<>>)
        => ConvertedWell

\* a request with a lower-case method and two Host lines was converted
C1_Witness ==
    /\ Converted
    /\ RequestTokens(Raw)[1] # Upper(RequestTokens(Raw)[1])
    /\ Cardinality(LinesNamed(Raw, {HostKey})) = 2

LooksLikeHttp(body) ==
    \E p \in 1..Len(http_prefixes) : StartsWith(Strip(body), http_prefixes[p])

\* C2: for every record that has a url, kadabra_format_curl returns a command;
\* a body that is absent, whitespace-only or opens (trimmed) with an HTTP
\* start-line prefix yields no data flag; any other body yields exactly one data
\* flag, which ends the command, carries the body as its value, and is -d when
\* the body is valid JSON and --data-raw when it is not.
C2_DataFlag ==
    (pc \in {"formatted", "format_failed"} /\ Truthy(Record.url)) =>
        /\ pc = "formatted"
        /\ LET body == Record.body
               args == Arguments
               data == FlagsNamed(args, {DataFlag, DataRawFlag})
           IN  IF ~Truthy(body) \/ Blank(Val(body)) \/ LooksLikeHttp(Val(body))
               THEN data = {}
               ELSE LET flag == IF json_loads(Val(body)) = JsonValue
                                THEN DataFlag ELSE DataRawFlag
                    IN  /\ Cardinality(data) = 1
                        /\ \A n \in data : args[n] = <<flag, Val(body)>>
                        /\ EndsWith(Command,
                                    <<" ">> \o flag \o <<" ">> \o shlex_quote(Val(body)))

NameOf(arg) == SplitOnce(arg, ":")[1]
Kept(headers) == SelectSeq(headers, LAMBDA h : Lower(h[1]) \notin {HostKey, CookieKey})

\* C3: no -H argument names host or cookie in any letter case, and the -H
\* arguments are exactly the other headers, "Name: value", in their order, so
\* that a Cookie header's value is in no -H argument.
C3_NoHostNoCookie ==
    Formatted =>
        LET args == Arguments
            hs == FlagsNamed(args, {HeaderFlag})
            kept == Kept(Record.headers)
        IN  /\ \A n \in hs : /\ HasColon(args[n][2])
                             /\ Lower(NameOf(args[n][2])) \notin {HostKey, CookieKey}
            /\ Cardinality(hs) = Len(kept)
            /\ \A n \in hs :
                  LET k == Cardinality({m \in hs : m <= n})
                  IN  args[n][2] = kept[k][1] \o <<":", " ">> \o kept[k][2]

\* a record with a Host or Cookie header in another letter case, and a -H argument
C3_Witness ==
    /\ Formatted
    /\ \E i \in 1..Len(Record.headers) :
          /\ Lower(Record.headers[i][1]) \in {HostKey, CookieKey}
          /\ Record.headers[i][1] \notin {<<"H", "o", "s", "t">>, <<"C", "o", "o", "k", "i", "e">>}
    /\ FlagsNamed(Arguments, {HeaderFlag}) # {}

\* the arguments a record calls for, as <<flag, value>>
RECURSIVE Flatten(_)
Flatten(pairs) ==
    IF pairs = <<>> THEN <<>> ELSE pairs[1] \o Flatten(Tail(pairs))

OptionOf(flag, field) == IF Truthy(field) THEN << <<flag, Val(field)>> >> ELSE <<>>

ExpectedArgs(rd) ==
    OptionOf(ProxyFlag, rd.proxy)
    \o [k \in 1..Len(Kept(rd.headers)) |->
            <<HeaderFlag, Kept(rd.headers)[k][1] \o <<":", " ">> \o Kept(rd.headers)[k][2]>>]
    \o OptionOf(CookieFlag, rd.cookies)
    \o OptionOf(CookieJarFlag, rd.cookie_jar)
    \o (IF ~Truthy(rd.body) \/ Blank(Val(rd.body)) \/ LooksLikeHttp(Val(rd.body)) THEN <<>>
        ELSE << <<IF json_loads(Val(rd.body)) = JsonValue THEN DataFlag ELSE DataRawFlag,
                  Val(rd.body)>> >>)

\* C4: split into words as a POSIX shell does, the command is curl, -X, the
\* method, the URL, and then one flag and one value for each argument of the
\* record, each value being the record's value unchanged, and nothing else.
C4_WordsRoundTrip ==
    Formatted =>
        CommandWords =
            << <<"c", "u", "r", "l">>, <<"-", "X">>,
               IF IsSome(Record.method) THEN Val(Record.method) ELSE DefaultMethod,
               Val(Record.url) >>
            \o Flatten(ExpectedArgs(Record))

\* a command whose URL holds a single quote and one of whose values holds a blank
C4_Witness ==
    /\ Formatted
    /\ \E i \in 1..Len(Val(Record.url)) : Val(Record.url)[i] = "'"
    /\ LET args == Arguments
       IN  \E n \in 1..Len(args) : \E i \in 1..Len(args[n][2]) : args[n][2][i] = " "

\* no Host line, or an empty value on the last one
HostMissing(raw) ==
    LET hosts == LinesNamed(raw, {HostKey})
    IN  hosts = {} \/ HeaderValue(RequestTextLines(raw)[Last(hosts)]) = <<>>

\* the first check of alakazam_parse_request, in its order, that the request fails
FirstFailure(raw) ==
    IF Blank(raw) THEN EmptyInput
    ELSE IF TokenCount(RequestTextLines(raw)[1]) < 2 THEN MalformedRequestLine
    ELSE IF Upper(RequestTokens(raw)[1]) \notin VALID_METHODS THEN InvalidMethod
    ELSE IF HostMissing(raw) THEN MissingHost
    ELSE NoError

\* C5: a call of alakazam_parse_request ends with a record that has its method
\* and url and no error, or with no record and the error of the first check it
\* fails, the checks taken in the order EmptyInput, MalformedRequestLine,
\* InvalidMethod, MissingHost.
C5_OneOutcomeInOrder ==
    AfterParse =>
        /\ error = FirstFailure(Raw)
        /\ \/ /\ pc = "parsed" /\ error = NoError /\ IsSome(request_data)
              /\ IsSome(Record.method) /\ IsSome(Record.url)
           \/ /\ pc = "parse_failed" /\ request_data = None
              /\ error \in {EmptyInput, MalformedRequestLine, InvalidMethod, MissingHost}

\* an unknown method and no Host header: InvalidMethod is reported
C5_Witness ==
    /\ AfterParse
    /\ ~Blank(Raw)
    /\ LinesNamed(Raw, {HostKey}) = {}
    /\ error = InvalidMethod

\* C6: with a well-formed request line and an allow-listed method, a request
\* none of whose header lines (before the first blank line) is named host, in
\* any letter case, fails with MissingHost and returns no record.
C6_NoHostLine ==
    (AfterParse /\ GoodRequestLine(Raw) /\ LinesNamed(Raw, {HostKey}) = {})
        => (pc = "parse_failed" /\ error = MissingHost /\ request_data = None)

\* MissingHost for a request with another header and with a Host line in its body
C6_Witness ==
    /\ AfterParse
    /\ error = MissingHost
    /\ LinesNamed(Raw, {HostKey}) = {}
    /\ \E i \in HeaderRange(Raw) : HasColon(RequestTextLines(Raw)[i])
    /\ \E i \in (2..Len(RequestTextLines(Raw))) \ HeaderRange(Raw) :
          /\ HasColon(RequestTextLines(Raw)[i])
          /\ Lower(HeaderName(RequestTextLines(Raw)[i])) = HostKey

AllowList == {
    <<"G", "E", "T">>, <<"P", "O", "S", "T">>, <<"P", "U", "T">>,
    <<"D", "E", "L", "E", "T", "E">>, <<"P", "A", "T", "C", "H">>,
    <<"O", "P", "T", "I", "O", "N", "S">>, <<"H", "E", "A", "D">>,
    <<"T", "R", "A", "C", "E">>, <<"C", "O", "N", "N", "E", "C", "T">>}

\* C7: parsing succeeds only if the first token of the request line, upper-cased,
\* is one of the nine allow-listed methods, and the record's method is that
\* upper-cased token; a request line of two tokens or more fails with
\* InvalidMethod exactly when the upper-cased first token is not allow-listed.
C7_MethodAllowList ==
    AfterParse =>
        /\ pc = "parsed" =>
              /\ ~Blank(Raw)
              /\ TokenCount(RequestTextLines(Raw)[1]) >= 2
              /\ Upper(RequestTokens(Raw)[1]) \in AllowList
              /\ Record.method = Some(Upper(RequestTokens(Raw)[1]))
        /\ (~Blank(Raw) /\ TokenCount(RequestTextLines(Raw)[1]) >= 2) =>
              (error = InvalidMethod <=> Upper(RequestTokens(Raw)[1]) \notin AllowList)

\* a method that is not written in upper case was accepted and stored upper-cased
C7_Witness ==
    /\ AfterParse
    /\ pc = "parsed"
    /\ RequestTokens(Raw)[1] # Upper(RequestTokens(Raw)[1])
    /\ Val(Record.method) = Upper(RequestTokens(Raw)[1])

\* C8: alakazam_parse_request fails with EmptyInput exactly for the requests
\* that hold nothing but whitespace (the empty request among them).
C8_EmptyInput ==
    AfterParse =>
        /\ error = EmptyInput <=> Blank(Raw)
        /\ error = EmptyInput => request_data = None

\* EmptyInput for a request of blanks and newlines
C8_Witness ==
    /\ AfterParse
    /\ error = EmptyInput
    /\ Len(Raw) > 1
    /\ \E i \in 1..Len(Raw) : Raw[i] = " "
    /\ \E i \in 1..Len(Raw) : Raw[i] = "\n"

\* the request with its request line cut down to the method and the path
TwoTokenRequest(raw) ==
    LET lines == RequestTextLines(raw)
        tokens == SplitWhitespace(lines[1])
    IN  Join(<< tokens[1] \o <<" ">> \o tokens[2] >> \o Tail(lines), <<"\n">>)

\* C9: a request that is not blank fails with MalformedRequestLine exactly when
\* its first line has fewer than 2 tokens; with 2 tokens or more, the outcome is
\* that of the same request with only the first two tokens on its request line.
C9_RequestLineTokens ==
    (AfterParse /\ ~Blank(Raw)) =>
        /\ error = MalformedRequestLine <=> TokenCount(RequestTextLines(Raw)[1]) < 2
        /\ TokenCount(RequestTextLines(Raw)[1]) >= 2 =>
              LET cut == alakazam_parse_request(TwoTokenRequest(Raw))
              IN  request_data = cut.result /\ error = cut.error

\* a request line of four tokens was accepted
C9_Witness ==
    /\ AfterParse
    /\ pc = "parsed"
    /\ TokenCount(RequestTextLines(Raw)[1]) = 4

HasScheme(s) == StartsWith(s, HttpScheme) \/ StartsWith(s, HttpsScheme)

\* C10: the url of a returned record is not empty, starts with http:// or
\* https://, and is host + path when that starts with one of the two, and
\* https:// + host + path when it does not, host being the value of the last
\* Host line and path the second token of the request line.
C10_Url ==
    (AfterParse /\ pc = "parsed") =>
        LET url == Val(Record.url)
            host_path == TrackedHost(Raw) \o RequestTokens(Raw)[2]
        IN  /\ IsSome(Record.url)
            /\ url # <<>>
            /\ HasScheme(url)
            /\ url = IF HasScheme(host_path) THEN host_path ELSE HttpsScheme \o host_path

\* a Host value that brings its own http:// scheme
C10_Witness ==
    /\ AfterParse
    /\ pc = "parsed"
    /\ StartsWith(TrackedHost(Raw), HttpScheme)
    /\ StartsWith(Val(Record.url), HttpScheme)

\* C11: kadabra_format_curl fails with MissingURL and returns no command whenever
\* the record's url is absent or the empty string, whatever the other fields
\* are, and it fails for no record that has a non-empty url.
C11_MissingUrlOnly ==
    pc \in {"formatted", "format_failed"} =>
        IF ~Truthy(Record.url)
        THEN pc = "format_failed" /\ error = MissingURL /\ curl_command = None
        ELSE pc = "formatted" /\ error = NoError /\ IsSome(curl_command)

\* the command text a record calls for: each argument after the URL is one
\* space, the flag, one space and the escaped value
RECURSIVE ArgumentsText(_)
ArgumentsText(args) ==
    IF args = <<>> THEN <<>>
    ELSE <<" ">> \o args[1][1] \o <<" ">> \o shlex_quote(args[1][2])
             \o ArgumentsText(Tail(args))

\* C12: the command is "curl -X <method>", the URL, then --proxy, one -H for
\* each header but Host and Cookie in the order of the headers mapping,
\* --cookie, --cookie-jar and the data flag, in this order, each only when its
\* field is set, with exactly one space between adjacent arguments.
C12_FixedOrder ==
    Formatted =>
        Command =
            CurlX \o (IF IsSome(Record.method) THEN Val(Record.method) ELSE DefaultMethod)
                \o <<" ">> \o shlex_quote(Val(Record.url))
                \o ArgumentsText(ExpectedArgs(Record))

\* a command with all five groups after the URL: proxy, header, cookie,
\* cookie jar and data, from a record with a skipped header
C12_Witness ==
    /\ Formatted
    /\ LET args == Arguments
       IN  /\ \A flag \in {ProxyFlag, HeaderFlag, CookieFlag, CookieJarFlag} :
                 FlagsNamed(args, {flag}) # {}
           /\ FlagsNamed(args, {DataFlag, DataRawFlag}) # {}
    /\ Len(Kept(Record.headers)) < Len(Record.headers)

\* C13: the returned command is a single line: it holds no newline character,
\* at its end or anywhere else, whatever the fields of the record hold.
C13_SingleLine ==
    Formatted => \A i \in 1..Len(Command) : Command[i] # "\n"

\* the states of a run on a raw request that was parsed into a record
Parsed == IsSome(raw_request) /\ pc \in {"parsed", "formatted", "format_failed"}

\* s holds sub as a run of adjacent characters
Contains(s, sub) ==
    \E i \in 1..(Len(s) - Len(sub) + 1) : SubSeq(s, i, i + Len(sub) - 1) = sub

\* the value of header line i
ValueAt(raw, i) == HeaderValue(RequestTextLines(raw)[i])

\* what C14 says of a Cookie value v: it is the record's cookies field, and a
\* returned command holds exactly one --cookie argument, which is v escaped,
\* and no -H argument named cookie
CookieCarried(v) ==
    /\ Record.cookies = Some(v)
    /\ Formatted =>
          LET args == Arguments
              cookie == FlagsNamed(args, {CookieFlag})
          IN  /\ Cardinality(cookie) = 1
              /\ \A n \in cookie : args[n][2] = v
              /\ Contains(Command, <<" ">> \o CookieFlag \o <<" ">> \o shlex_quote(v))
              /\ \A n \in FlagsNamed(args, {HeaderFlag}) :
                    Lower(Strip(NameOf(args[n][2]))) # CookieKey

\* C14 as stated: for every Cookie header line (in any letter case) before the
\* first blank line of a parsed request, the record's cookies field is the
\* trimmed value of that line and the command holds exactly one --cookie
\* argument with that value escaped, and no -H argument for the cookie.
C14_AnyCookieLine ==
    Parsed => \A i \in LinesNamed(Raw, {CookieKey}) : CookieCarried(ValueAt(Raw, i))

\* C14 amended: the same for the last Cookie header line when its trimmed value
\* is not empty; when it is empty the record has no cookies field and the
\* command no --cookie argument.
C14_LastCookieLine ==
    (Parsed /\ LinesNamed(Raw, {CookieKey}) # {}) =>
        LET v == ValueAt(Raw, Last(LinesNamed(Raw, {CookieKey})))
        IN  IF v # <<>> THEN CookieCarried(v)
            ELSE /\ Record.cookies = None
                 /\ Formatted => FlagsNamed(Arguments, {CookieFlag}) = {}

\* a converted request with two Cookie lines of different values and a
\* --cookie argument whose value needs quoting
C14_Witness ==
    /\ Converted
    /\ \E i, j \in LinesNamed(Raw, {CookieKey}) : ValueAt(Raw, i) # ValueAt(Raw, j)
    /\ \E n \in FlagsNamed(Arguments, {CookieFlag}) :
          \E k \in 1..Len(Arguments[n][2]) : Arguments[n][2][k] = " "

Quote == "'"

\* C15: in the command of every successful conversion the URL stands wrapped in
\* single quotes, also when it holds only shell-safe characters: the word after
\* the method is a single quote, the URL and a single quote.
C15_UrlInQuotes ==
    Converted =>
        LET url == Val(Record.url)
        IN  (\A i \in 1..Len(url) : url[i] # Quote) =>
                StartsWith(Command,
                    CurlX \o Val(Record.method) \o <<" ", Quote>> \o url \o <<Quote>>)

(***************************************************************************)
(* Properties of the command line                                          *)
(***************************************************************************)

\* the commands shown in a panel so far
Displayed == {Val(stdout[k].command) : k \in {n \in 1..Len(stdout) : IsSome(stdout[n].command)}}

\* a run that ended on a command line click accepts, with its input read
RanOn(texts) ==
    /\ pc = "exited"
    /\ Options.file \/ ~Environment.tty \/ Environment.paste_ok
    /\ Environment.text \in texts

\* C16: when --proxy <value> (or --cookie-jar <value>) is on the command line
\* of a run on a request that converts and has no proxy header, the run shows a
\* command that holds "--proxy '<value>'" (or "--cookie-jar '<value>'").
C16_OptionsReachCommand ==
    (RanOn(IntegrationRequests) /\ Environment.display_ok) =>
        /\ IsSome(Options.proxy) =>
              \E c \in Displayed :
                  Contains(c, <<" ">> \o ProxyFlag \o <<" ", Quote>>
                                  \o Val(Options.proxy) \o <<Quote>>)
        /\ IsSome(Options.cookie_jar) =>
              \E c \in Displayed :
                  Contains(c, <<" ">> \o CookieJarFlag \o <<" ", Quote>>
                                  \o Val(Options.cookie_jar) \o <<Quote>>)

\* C17: a run on an empty or whitespace-only input ends with exit code 1, has
\* printed "No input provided" or "No HTTP request found" on standard output,
\* and has produced no curl command.
C17_EmptyInputExit ==
    (RanOn({t \in CliTexts : Blank(t)}) /\ Options.proxy = None /\ Options.cookie_jar = None) =>
        /\ exit_code = Some(1)
        /\ \E k \in 1..Len(stdout) : stdout[k].text \in {NoInputProvided, EmptyInput}
        /\ curl_command = None
        /\ Displayed = {}

StageOrder == <<"read", "parse", "format", "display", "copy">>

Entered(stage) == \E k \in 1..Len(stages) : stages[k] = stage

\* the run stopped in the given stage, with one report, made by that stage
StoppedIn(stage, report) ==
    /\ stages[Len(stages)] = stage
    /\ stderr = <<report>>

\* C18: the stages are entered in the order read, parse, format, display, copy
\* (copy under -c only), each at most once; a stage that fails reports at
\* once and is the last stage entered: after a failed parse the formatter is
\* not called, and after a failed parse or format no command is displayed and
\* nothing is copied; what is displayed and copied is the generated command.
C18_StagesInOrder ==
    /\ stages = SubSeq(StageOrder, 1, Len(stages))
    /\ Entered("copy") => Options.clipboard
    /\ (Entered("read") /\ raw_request = None) =>
          StoppedIn("read", Reported(ClipboardReadFailed, ClipboardUnavailable))
    /\ (IsSome(raw_request) /\ Blank(Raw)) =>
          StoppedIn("read", Reported(NoInputProvided, NoError))
    /\ (Entered("parse") /\ request_data = None) =>
          /\ StoppedIn("parse", Reported(UnexpectedError, error))
          /\ error # NoError
    /\ (Entered("format") /\ curl_command = None) =>
          /\ StoppedIn("format", Reported(UnexpectedError, error))
          /\ error # NoError
    /\ curl_command = None => Displayed = {} /\ copied = None
    /\ \A c \in Displayed : curl_command = Some(c)
    /\ IsSome(copied) => copied = curl_command /\ Displayed # {}
    /\ (Entered("display") /\ Displayed = {}) =>
          StoppedIn("display", Reported(UnexpectedError, ConsoleFailure))

\* a run whose formatter raised has ended: three stages, one report
C18_Witness ==
    /\ pc = "exited"
    /\ stages = <<"read", "parse", "format">>
    /\ stderr = <<Reported(UnexpectedError, IntegerTooLong)>>
    /\ Options.clipboard

\* what the scenario expects of the record apart from its headers
BasicGetFields ==
    /\ Record.method = Some(<<"G", "E", "T">>)
    /\ Record.url = Some(<<"h", "t", "t", "p", "s", ":", "/", "/", "e", "x", "a", "m", "p",
                           "l", "e", ".", "c", "o", "m", "/", "a", "p", "i", "/", "v", "1",
                           "/", "u", "s", "e", "r", "s">>)
    /\ Record.body = None

HostEntry == << <<"H", "o", "s", "t">>, <<"e", "x", "a", "m", "p", "l", "e", ".", "c", "o", "m">> >>
AcceptEntry ==
    << <<"A", "c", "c", "e", "p", "t">>,
       <<"a", "p", "p", "l", "i", "c", "a", "t", "i", "o", "n", "/", "j", "s", "o", "n">> >>

\* C20 as stated: the basic GET request parses to method GET, url
\* https://example.com/api/v1/users, no body, and headers holding Accept alone.
C20_AcceptOnly ==
    (Parsed /\ Raw = basic_get_request) =>
        /\ BasicGetFields
        /\ Record.headers = <<AcceptEntry>>

\* C20: the basic GET request parses to method GET, url
\* https://example.com/api/v1/users, no body, and headers holding two entries,
\* Host: example.com and then Accept: application/json.
C20_BasicGet ==
    (Parsed /\ Raw = basic_get_request) =>
        /\ BasicGetFields
        /\ Record.headers = <<HostEntry, AcceptEntry>>

C20_Witness ==
    /\ pc = "parsed"
    /\ raw_request = Some(basic_get_request)
    /\ Len(Record.headers) = 2

\* the result of the same call made with nothing else running
RunAlone(frame) ==
    IF frame.fn = "parse" THEN alakazam_parse_request(frame.arg)
    ELSE kadabra_format_curl(frame.arg)

\* C19: however the steps of concurrent and repeated calls of
\* alakazam_parse_request and kadabra_format_curl interleave, every call
\* returns the record, string or error that the same call returns when it runs
\* alone on the same argument.
C19_CallsIndependent ==
    \A c \in Callers :
        calls[c].at = "returned" => calls[c].result = Some(RunAlone(calls[c]))

C19_Witness ==
    \E c, d \in Callers :
        /\ c # d
        /\ calls[c].at = "returned" /\ calls[c].overlapped
        /\ calls[d].at = "returned" /\ calls[d].overlapped
        /\ calls[c].fn = "parse" /\ Val(calls[c].result).error = NoError
        /\ calls[d].fn = calls[c].fn /\ calls[d].arg # calls[c].arg
        /\ Val(calls[d].result).error = NoError

(***************************************************************************)
(* The header lines as the contract reads them                             *)
(***************************************************************************)

\* the k-th smallest member of a set of numbers
Nth(S, k) == CHOOSE i \in S : Cardinality({j \in S : j < i}) = k - 1

\* where the header lines end: the first blank line after the request line, or
\* past the last line
HeaderStop(lines) ==
    LET blank == {i \in 2..Len(lines) : Blank(lines[i])}
    IN  IF blank = {} THEN Len(lines) + 1 ELSE CHOOSE i \in blank : \A j \in blank : i <= j

\* the lines between the request line and the first blank line that hold a
\* colon, as <<name, value>>, in their order
SeenHeaders(lines) ==
    LET at == {i \in 2..(HeaderStop(lines) - 1) : HasColon(lines[i])}
    IN  [k \in 1..Cardinality(at) |->
            <<HeaderName(lines[Nth(at, k)]), HeaderValue(lines[Nth(at, k)])>>]

\* the places of a name in a sequence of <<name, value>>
PlacesOf(pairs, name) == {k \in 1..Len(pairs) : pairs[k][1] = name}

\* headers is the mapping that the lines seen make: one entry for each name,
\* the names in the order in which they first appear, each with the value of
\* its last line
MappingOf(headers, seen) ==
    /\ \A k, m \in 1..Len(headers) : headers[k][1] = headers[m][1] => k = m
    /\ {headers[k][1] : k \in 1..Len(headers)} = {seen[j][1] : j \in 1..Len(seen)}
    /\ \A k \in 1..Len(headers) :
          headers[k][2] = seen[Last(PlacesOf(seen, headers[k][1]))][2]
    /\ \A k, m \in 1..Len(headers) :
          k < m => Nth(PlacesOf(seen, headers[k][1]), 1) < Nth(PlacesOf(seen, headers[m][1]), 1)

\* the request without the lines among its header lines that hold no colon
WithoutColonless(lines) ==
    LET keep == {i \in 1..Len(lines) :
                    i = 1 \/ i >= HeaderStop(lines) \/ HasColon(lines[i])}
    IN  Join([k \in 1..Cardinality(keep) |-> lines[Nth(keep, k)]], <<"\n">>)

JustParsed == IsSome(raw_request) /\ pc = "parsed"

\* C21 as stated: the headers of a parsed record hold one entry for each header
\* line with a colon, repeated names included, in order of appearance, with the
\* trimmed name and the trimmed value of the line.
C21_EntryPerLine ==
    JustParsed => Record.headers = SeenHeaders(RequestTextLines(Raw))

\* C21: the headers of a parsed record hold one entry for each name found on a
\* header line with a colon (trimmed text before the first colon), the names in
\* order of first appearance, each with the trimmed value of the last line of
\* that name; a header line without a colon adds no entry and changes nothing in
\* the outcome of the call, be it a record or an error.
C21_EntryPerName ==
    AfterParse =>
        LET lines == RequestTextLines(Raw)
        IN  /\ pc = "parsed" => MappingOf(Record.headers, SeenHeaders(lines))
            /\ (\E i \in 2..(HeaderStop(lines) - 1) : ~HasColon(lines[i])) =>
                  alakazam_parse_request(WithoutColonless(lines))
                      = [error |-> error, result |-> request_data]

\* a record from a request with a repeated name and a line without a colon
C21_Witness ==
    /\ JustParsed
    /\ LET lines == RequestTextLines(Raw)
       IN  /\ \E i \in 2..(HeaderStop(lines) - 1) : ~HasColon(lines[i])
           /\ Len(SeenHeaders(lines)) = 3
           /\ Len(Record.headers) = 2

\* the pairs of names on the header lines that differ in letter case only, the
\* one that appears first taken first
CaseVariants(seen) ==
    {p \in {seen[j][1] : j \in 1..Len(seen)} \X {seen[j][1] : j \in 1..Len(seen)} :
        /\ p[1] # p[2]
        /\ Lower(p[1]) = Lower(p[2])
        /\ Nth(PlacesOf(seen, p[1]), 1) < Nth(PlacesOf(seen, p[2]), 1)}

\* the -H argument of a name: the name and the value of its last line
HeaderArgument(seen, name) ==
    name \o <<":", " ">> \o seen[Last(PlacesOf(seen, name))][2]

\* both names of the pair are entries of the headers
BothKept(headers, p) == PlacesOf(headers, p[1]) # {} /\ PlacesOf(headers, p[2]) # {}

\* both names of the pair have their -H argument, in the order of the pair
BothEmitted(args, seen, p) ==
    \E a, b \in FlagsNamed(args, {HeaderFlag}) :
        /\ a < b
        /\ args[a][2] = HeaderArgument(seen, p[1])
        /\ args[b][2] = HeaderArgument(seen, p[2])

\* C22 as stated: two header lines whose names differ in letter case only are
\* both entries of the parsed headers, and the command has a -H argument for
\* each, in their order of appearance.
C22_BothEmitted ==
    /\ JustParsed =>
          \A p \in CaseVariants(SeenHeaders(RequestTextLines(Raw))) : BothKept(Record.headers, p)
    /\ Converted =>
          LET seen == SeenHeaders(RequestTextLines(Raw))
              args == Arguments
          IN  \A p \in CaseVariants(seen) : BothEmitted(args, seen, p)

\* C22: two header lines whose names differ in letter case only are both
\* entries of the parsed headers, and unless the name is host or cookie (in any
\* letter case) every command made from the record has a -H argument for each,
\* in their order of appearance.
C22_BothEmittedButHostAndCookie ==
    /\ JustParsed =>
          \A p \in CaseVariants(SeenHeaders(RequestTextLines(Raw))) : BothKept(Record.headers, p)
    /\ Converted =>
          LET seen == SeenHeaders(RequestTextLines(Raw))
              args == Arguments
          IN  \A p \in CaseVariants(seen) :
                  Lower(p[1]) \notin {HostKey, CookieKey} => BothEmitted(args, seen, p)

\* a command with the -H arguments of two names that differ in letter case only
C22_Witness ==
    /\ Converted
    /\ LET seen == SeenHeaders(RequestTextLines(Raw))
       IN  \E p \in CaseVariants(seen) :
              /\ Lower(p[1]) \notin {HostKey, CookieKey}
              /\ BothEmitted(Arguments, seen, p)

\* C23: the body of a parsed record is unset when the request has no blank line
\* after its request line; otherwise the body section is made of the lines after
\* the first blank line, and the body is these lines joined with newline, or
\* unset when that text is whitespace only.  No line of the body section makes
\* an entry of the headers.
C23_BodySection ==
    JustParsed =>
        LET lines == RequestTextLines(Raw)
            stop == HeaderStop(lines)
            text == Join(SubSeq(lines, stop + 1, Len(lines)), <<"\n">>)
            seen == SeenHeaders(lines)
        IN  /\ stop > Len(lines) => Record.body = None
            /\ stop <= Len(lines) =>
                  Record.body = IF Blank(text) THEN None ELSE Some(text)
            /\ \A k \in 1..Len(Record.headers) : PlacesOf(seen, Record.headers[k][1]) # {}

\* a body of several lines, one of them with a colon that made no header
C23_Witness ==
    /\ JustParsed
    /\ IsSome(Record.body)
    /\ LET lines == RequestTextLines(Raw)
           stop == HeaderStop(lines)
       IN  /\ Len(lines) >= stop + 2
           /\ \E i \in (stop + 1)..Len(lines) :
                 /\ HasColon(lines[i])
                 /\ PlacesOf(Record.headers, HeaderName(lines[i])) = {}

\* the places of the lines seen whose name, lower-cased, is one of names
PlacesNamed(seen, names) == {j \in 1..Len(seen) : Lower(seen[j][1]) \in names}

\* C24 as stated: with several header lines named Proxy-Connection or
\* X-Forwarded-For, in any letter case, the proxy of the parsed record is the
\* value of the last of them.
C24_LastProxyLine ==
    JustParsed =>
        LET seen == SeenHeaders(RequestTextLines(Raw))
            named == PlacesNamed(seen, ProxyKeys)
        IN  Cardinality(named) >= 2 => Record.proxy = Some(seen[Last(named)][2])

\* C24: with one header line or more named Proxy-Connection or X-Forwarded-For,
\* in any letter case, the proxy of the parsed record is the value of the last
\* of them when that value is not empty, and is unset when it is empty,
\* whatever the values of the lines before it.
C24_LastProxyValue ==
    JustParsed =>
        LET seen == SeenHeaders(RequestTextLines(Raw))
            named == PlacesNamed(seen, ProxyKeys)
        IN  named # {} =>
                Record.proxy = IF seen[Last(named)][2] = <<>> THEN None
                               ELSE Some(seen[Last(named)][2])

\* two proxy lines with different values: the record has the second value
C24_Witness ==
    /\ JustParsed
    /\ LET seen == SeenHeaders(RequestTextLines(Raw))
           named == PlacesNamed(seen, ProxyKeys)
       IN  /\ Cardinality(named) = 2
           /\ seen[Nth(named, 1)][2] # seen[Last(named)][2]
           /\ Record.proxy = Some(seen[Last(named)][2])

\* a line of one of the names is among the lines seen
Detected(seen, names) == PlacesNamed(seen, names) # {}

\* a line of one of the names is among the lines seen, and the last has a value
DetectedWithValue(seen, names) ==
    /\ PlacesNamed(seen, names) # {}
    /\ seen[Last(PlacesNamed(seen, names))][2] # <<>>

\* C25 as stated: a parsed record has cookies exactly when a Cookie line is
\* among its header lines, has a proxy exactly when a Proxy-Connection or
\* X-Forwarded-For line is among them, and has no cookie_jar.
C25_PresentWhenDetected ==
    JustParsed =>
        LET seen == SeenHeaders(RequestTextLines(Raw))
        IN  /\ IsSome(Record.cookies) <=> Detected(seen, {CookieKey})
            /\ IsSome(Record.proxy) <=> Detected(seen, ProxyKeys)
            /\ Record.cookie_jar = None

\* C25: a parsed record has cookies exactly when a Cookie line is among its
\* header lines and the last of them has a value that is not empty, has a proxy
\* exactly when a Proxy-Connection or X-Forwarded-For line is among them and the
\* last of them has a value that is not empty, and has no cookie_jar.
C25_PresentWhenValued ==
    JustParsed =>
        LET seen == SeenHeaders(RequestTextLines(Raw))
        IN  /\ IsSome(Record.cookies) <=> DetectedWithValue(seen, {CookieKey})
            /\ IsSome(Record.proxy) <=> DetectedWithValue(seen, ProxyKeys)
            /\ Record.cookie_jar = None

\* a Cookie line without a value and no proxy line: no cookies, no proxy
C25_Witness ==
    /\ JustParsed
    /\ LET seen == SeenHeaders(RequestTextLines(Raw))
       IN  /\ Detected(seen, {CookieKey})
           /\ ~DetectedWithValue(seen, {CookieKey})
           /\ ~Detected(seen, ProxyKeys)
           /\ Record.cookies = None
           /\ Record.proxy = None
           /\ Record.cookie_jar = None

\* C26: when the trimmed request has a blank line after its request line and
\* the call returns a record, the text after the first blank line holds a
\* character that is not whitespace and the record has a body.
C26_BodyAfterBlankLine ==
    JustParsed =>
        LET lines == RequestTextLines(Raw)
            stop == HeaderStop(lines)
        IN  stop <= Len(lines) =>
                /\ ~Blank(Join(SubSeq(lines, stop + 1, Len(lines)), <<"\n">>))
                /\ IsSome(Record.body)

\* a request that ends in whitespace after a blank line and a body: the record
\* has the body
C26_Witness ==
    /\ JustParsed
    /\ Raw[Len(Raw)] \in Whitespace
    /\ HeaderStop(RequestTextLines(Raw)) <= Len(RequestTextLines(Raw))
    /\ IsSome(Record.body)

\* the Host lines seen, and those of them without a value
HostPlaces(seen) == PlacesNamed(seen, {HostKey})
EmptyHostPlaces(seen) == {j \in HostPlaces(seen) : seen[j][2] = <<>>}

\* C27 as stated: a request with a Host line whose value is empty after
\* trimming fails with MissingHost and returns no record.
C27_AnyEmptyHostLine ==
    (AfterParse /\ GoodRequestLine(Raw)) =>
        LET seen == SeenHeaders(RequestTextLines(Raw))
        IN  EmptyHostPlaces(seen) # {} =>
                /\ error = MissingHost
                /\ request_data = None

\* C27: when the last Host line of a request, in any letter case, has an empty
\* value, the call fails with MissingHost and returns no record; the url of a
\* returned record ends with a Host value that is not empty followed by the
\* path, and is never the path alone.
C27_LastEmptyHostLine ==
    (AfterParse /\ GoodRequestLine(Raw)) =>
        LET seen == SeenHeaders(RequestTextLines(Raw))
            hosts == HostPlaces(seen)
            path == RequestTokens(Raw)[2]
        IN  /\ (hosts # {} /\ Last(hosts) \in EmptyHostPlaces(seen)) =>
                    /\ error = MissingHost
                    /\ request_data = None
            /\ pc = "parsed" =>
                    /\ hosts # {}
                    /\ seen[Last(hosts)][2] # <<>>
                    /\ EndsWith(Val(Record.url), seen[Last(hosts)][2] \o path)
                    /\ Val(Record.url) # path
                    /\ ~StartsWith(Val(Record.url), path)

\* a request whose last Host line has no value was refused for its host
C27_Witness ==
    /\ AfterParse
    /\ GoodRequestLine(Raw)
    /\ LET seen == SeenHeaders(RequestTextLines(Raw))
       IN  /\ EmptyHostPlaces(seen) # {}
           /\ Last(HostPlaces(seen)) \in EmptyHostPlaces(seen)
           /\ error = MissingHost
           /\ request_data = None

\* the names seen more than once with the same spelling
Repeated(seen) == {seen[j][1] : j \in {i \in 1..Len(seen) : Cardinality(PlacesOf(seen, seen[i][1])) >= 2}}

\* the first place of a name among the lines seen
First(S) == CHOOSE i \in S : \A j \in S : i <= j

\* the number of distinct names seen up to a place
NamesUpTo(seen, j) == Cardinality({seen[i][1] : i \in 1..j})

\* C28: a header name on several header lines with the same spelling has one
\* entry in the parsed headers, with the value of the last of these lines, at
\* the position the name took when it was first seen; with several Host lines,
\* in any letter case, the url is built from the value of the last.
C28_LastValueFirstPosition ==
    JustParsed =>
        LET seen == SeenHeaders(RequestTextLines(Raw))
            headers == Record.headers
            hosts == HostPlaces(seen)
        IN  /\ \A name \in Repeated(seen) :
                    LET at == NamesUpTo(seen, First(PlacesOf(seen, name)))
                    IN  /\ PlacesOf(headers, name) = {at}
                        /\ headers[at][2] = seen[Last(PlacesOf(seen, name))][2]
            /\ Cardinality(hosts) >= 2 =>
                    Val(Record.url) = BuildUrl(Some(seen[Last(hosts)][2]), RequestTokens(Raw)[2])

\* a parsed request with a name on two lines with different values and another
\* name first seen between them
C28_Witness ==
    /\ JustParsed
    /\ LET seen == SeenHeaders(RequestTextLines(Raw))
       IN  \E name \in Repeated(seen) :
               LET first == First(PlacesOf(seen, name))
                   last == Last(PlacesOf(seen, name))
               IN  /\ seen[first][2] # seen[last][2]
                   /\ NamesUpTo(seen, first) < NamesUpTo(seen, last)
                   /\ Record.headers[NamesUpTo(seen, first)] = <<name, seen[last][2]>>

\* the command has the argument <<flag, value>>
Emits(args, flag, value) == \E n \in FlagsNamed(args, {flag}) : args[n][2] = value

CopyFailure == Reported(ClipboardCopyFailed, ClipboardUnavailable)

\* the copy in the states of a run: attempted under -c only, after the display
\* stage, with the generated command in a panel; a copy that failed has its
\* report last on the error console, has copied nothing and the panel is shown
CopyAfterDisplay ==
    /\ Entered("copy") =>
          /\ Options.clipboard
          /\ \E i, j \in 1..Len(stages) : i < j /\ stages[i] = "display" /\ stages[j] = "copy"
          /\ IsSome(curl_command)
          /\ Displayed = {Val(curl_command)}
    /\ IsSome(copied) => Entered("copy") /\ copied = curl_command
    /\ (Entered("copy") /\ copied = None) =>
          /\ stderr # <<>>
          /\ stderr[Len(stderr)] = CopyFailure
          /\ \E k \in 1..Len(stdout) : stdout[k] = Panel(Val(curl_command))
    /\ (\E k \in 1..Len(stderr) : stderr[k] = CopyFailure) =>
          Entered("copy") /\ ~Environment.copy_ok

\* the copy in the steps of a run: it starts when the panel is on the output,
\* and nothing printed is ever taken back
NothingRetracted ==
    /\ (Entered("copy")' /\ ~Entered("copy")) =>
          /\ pc = "displayed"
          /\ Options.clipboard
          /\ Displayed # {}
    /\ Len(stdout') >= Len(stdout) /\ SubSeq(stdout', 1, Len(stdout)) = stdout
    /\ Len(stderr') >= Len(stderr) /\ SubSeq(stderr', 1, Len(stderr)) = stderr

\* the run is over: the function was left by a return, not by an exception,
\* and a command is displayed or an error is reported
Terminated ==
    /\ pc = "exited"
    /\ Entered("read") => exit_code = Some(NormalExit)
    /\ Displayed # {} \/ stderr # <<>>

\* C30: a clipboard copy is attempted only under -c and only after the command
\* was generated and displayed; a copy that fails is reported and the displayed
\* command stays displayed; every run ends, by a return of the function, with
\* a displayed command or an error message.
C30_CopyLastAndRunEnds ==
    /\ []CopyAfterDisplay
    /\ [][NothingRetracted]_vars
    /\ <>[]Terminated

\* a run under -c that ended after its copy failed: the command is displayed
\* and the failure is reported
C30_Witness ==
    /\ pc = "exited"
    /\ Options.clipboard
    /\ stages = StageOrder
    /\ Displayed = {Val(curl_command)}
    /\ stderr = <<CopyFailure>>
    /\ copied = None
    /\ exit_code = Some(NormalExit)

=============================================================================
